---- MODULE Spec2Model ----
(***************************************************************************)
(* A model of the CAS / shard protocol layer of xet-core:                  *)
(*   - cas_object/src/compression_scheme.rs : the compression codec        *)
(*   - shard_client/src/http_shard_client.rs: the HTTP shard client        *)
(*   - cas_types/src/lib.rs                 : the wire types               *)
(* Bytes are integers 0..255, byte strings are sequences of bytes.         *)
(***************************************************************************)
EXTENDS Integers, Sequences, FiniteSets, TLC

(***************************************************************************)
(* Bounds of the model.                                                    *)
(***************************************************************************)
\* longest payload handed to the compression codec
MaxLen == 9
\* most records in one chunk-probe response body
MaxRecords == 2
\* most terms in one reconstruction response
MaxTerms == 2

\* the files of one batch, the longest data given to put, the offsets and the
\* writes of one destination
MaxFiles == 3

MaxData == 10

MaxOffset == 3

MaxWrites == 3

\* the threads calling into the pool
MaxCallers == 2

\* the threads calling perform_sigint_shutdown
MaxShutdowns == 3

(***************************************************************************)
(* Results: Rust's Result<T, E>.                                           *)
(***************************************************************************)
NoValue == "-"

Ok(v) == [ok |-> TRUE, val |-> v, err |-> NoValue]

Err(e) == [ok |-> FALSE, val |-> NoValue, err |-> e]

(***************************************************************************)
(* Little-endian u32, as written by the LZ4 frame format and by the        *)
(* chunk-probe wire format.                                                *)
(***************************************************************************)
U32LE(n) == << n % 256, (n \div 256) % 256, (n \div 65536) % 256, (n \div 16777216) % 256 >>

FromU32LE(b) == b[1] + 256 * b[2] + 65536 * b[3] + 16777216 * b[4]

Take(s, n) == SubSeq(s, 1, n)

Drop(s, n) == SubSeq(s, n + 1, Len(s))

(***************************************************************************)
(* Byte grouping (cas_object/src/byte_grouping, bg4.rs and bg2.rs).        *)
(* split: the data is a sequence of n-byte records; byte i of every record *)
(* goes to plane i; the planes are concatenated in order and the bytes of  *)
(* the incomplete last record follow untouched.                            *)
(***************************************************************************)
bg_split(data, n) ==
    LET k == Len(data) \div n
    IN  [j \in 1..Len(data) |->
            IF j <= k * n
            THEN data[((j - 1) % k) * n + ((j - 1) \div k) + 1]
            ELSE data[j]]

\* a regroup that transposes in the direction of the split
bg_regroup_as_split(g, n) == bg_split(g, n)

bg_regroup(g, n) ==
    LET k == Len(g) \div n
    IN  [j \in 1..Len(g) |->
            IF j <= k * n
            THEN g[((j - 1) % n) * k + ((j - 1) \div n) + 1]
            ELSE g[j]]

bg4_split(data) == bg_split(data, 4)

bg4_regroup(g) == bg_regroup(g, 4)

bg2_split(data) == bg_split(data, 2)

bg2_regroup(g) == bg_regroup(g, 2)

(***************************************************************************)
(* The LZ4 frame format as lz4_flex's FrameEncoder / FrameDecoder produce  *)
(* and read it with the default FrameInfo: magic number, frame descriptor  *)
(* (FLG, BD, header checksum), data blocks, end mark.  A block is a u32    *)
(* size whose top bit says "stored uncompressed", followed by the bytes.   *)
(***************************************************************************)
LZ4F_MAGIC == << 4, 34, 77, 24 >>

LZ4F_DESCRIPTOR == << 96, 64, 130 >>

LZ4F_ENDMARK == << 0, 0, 0, 0 >>

\* the top bit of a block's u32 size, as it shows in the size's last byte
LZ4F_UNCOMPRESSED_FLAG == << 0, 0, 0, 128 >>

\* LZ4 block format: no match may start in the last 12 bytes of a block, so a
\* block shorter than 13 bytes (every block within MaxLen) is one sequence of
\* literals: the token with the literal count, then the literals.
lz4_block_compress(data) ==
    IF Len(data) < 15 THEN << 16 * Len(data) >> \o data
    ELSE << 240, Len(data) - 15 >> \o data

\* The frame encoder keeps a block compressed only when that is shorter.
lz4_frame_block(data) ==
    LET c == lz4_block_compress(data)
    IN  IF Len(c) < Len(data)
        THEN U32LE(Len(c)) \o c
        ELSE [i \in 1..4 |-> U32LE(Len(data))[i] + LZ4F_UNCOMPRESSED_FLAG[i]] \o data

lz4_frame_encode(data) ==
    LZ4F_MAGIC \o LZ4F_DESCRIPTOR
        \o (IF Len(data) = 0 THEN << >> ELSE lz4_frame_block(data))
        \o LZ4F_ENDMARK

\* A literal-only LZ4 block: token, literals.  Anything else in a block this
\* short is corrupt.
lz4_block_decompress(blk) ==
    IF Len(blk) = 0 THEN Err("DecompressionError")
    ELSE LET lit == blk[1] \div 16
             mat == blk[1] % 16
         IN  IF lit < 15 /\ mat = 0 /\ Len(blk) = 1 + lit
             THEN Ok(Drop(blk, 1))
             ELSE IF lit = 15 /\ mat = 0 /\ Len(blk) >= 2 /\ blk[2] < 255
                     /\ Len(blk) = 2 + 15 + blk[2]
             THEN Ok(Drop(blk, 2))
             ELSE Err("DecompressionError")

RECURSIVE lz4_frame_blocks(_, _)
lz4_frame_blocks(rest, acc) ==
    IF Len(rest) < 4 THEN Err("UnexpectedEof")
    ELSE LET stored == rest[4] >= LZ4F_UNCOMPRESSED_FLAG[4]
             size == FromU32LE(<< rest[1], rest[2], rest[3],
                                  rest[4] % LZ4F_UNCOMPRESSED_FLAG[4] >>)
             body == Drop(rest, 4)
         IN  IF size = 0 /\ ~stored THEN Ok(acc)
             ELSE IF stored
             THEN IF Len(body) < size THEN Err("UnexpectedEof")
                  ELSE lz4_frame_blocks(Drop(body, size), acc \o Take(body, size))
             ELSE IF Len(body) < size THEN Err("UnexpectedEof")
             ELSE LET d == lz4_block_decompress(Take(body, size))
                  IN  IF d.ok
                      THEN lz4_frame_blocks(Drop(body, size), acc \o d.val)
                      ELSE d

lz4_frame_decode(bytes) ==
    IF Len(bytes) = 0 THEN Ok(<< >>)
    ELSE IF Len(bytes) < 7 THEN Err("UnexpectedEof")
    ELSE IF Take(bytes, 4) # LZ4F_MAGIC THEN Err("WrongMagicNumber")
    ELSE IF SubSeq(bytes, 5, 7) # LZ4F_DESCRIPTOR THEN Err("UnsupportedFrame")
    ELSE lz4_frame_blocks(Drop(bytes, 7), << >>)

(***************************************************************************)
(* compression_scheme.rs: the schemes and the three codec entry points.    *)
(***************************************************************************)
CompressionScheme == { "None", "LZ4", "ByteGrouping4LZ4", "ByteGrouping2LZ4" }

lz4_compress_from_slice(data) == Ok(lz4_frame_encode(data))

lz4_decompress_from_slice(data) == lz4_frame_decode(data)

bg4_lz4_compress_from_slice(data) == Ok(lz4_frame_encode(bg4_split(data)))

bg4_lz4_decompress_from_slice(data) ==
    LET g == lz4_frame_decode(data)
    IN  IF g.ok THEN Ok(bg4_regroup(g.val)) ELSE g

bg2_lz4_compress_from_slice(data) == Ok(lz4_frame_encode(bg2_split(data)))

bg2_lz4_decompress_from_slice(data) ==
    LET g == lz4_frame_decode(data)
    IN  IF g.ok THEN Ok(bg2_regroup(g.val)) ELSE g

\* a slip in the dispatch: no scheme left as it is, None framed like LZ4
compress_from_slice_none_as_lz4(scheme, data) ==
    CASE scheme = "None" -> lz4_compress_from_slice(data)
      [] scheme = "LZ4" -> lz4_compress_from_slice(data)
      [] scheme = "ByteGrouping4LZ4" -> bg4_lz4_compress_from_slice(data)
      [] scheme = "ByteGrouping2LZ4" -> bg2_lz4_compress_from_slice(data)

compress_from_slice(scheme, data) ==
    CASE scheme = "None" -> Ok(data)
      [] scheme = "LZ4" -> lz4_compress_from_slice(data)
      [] scheme = "ByteGrouping4LZ4" -> bg4_lz4_compress_from_slice(data)
      [] scheme = "ByteGrouping2LZ4" -> bg2_lz4_compress_from_slice(data)

\* a slip in the dispatch: the two-plane scheme decoded with the four-plane one
decompress_from_slice_bg2_as_bg4(scheme, data) ==
    CASE scheme = "None" -> Ok(data)
      [] scheme = "LZ4" -> lz4_decompress_from_slice(data)
      [] scheme = "ByteGrouping4LZ4" -> bg4_lz4_decompress_from_slice(data)
      [] scheme = "ByteGrouping2LZ4" -> bg4_lz4_decompress_from_slice(data)

decompress_from_slice(scheme, data) ==
    CASE scheme = "None" -> Ok(data)
      [] scheme = "LZ4" -> lz4_decompress_from_slice(data)
      [] scheme = "ByteGrouping4LZ4" -> bg4_lz4_decompress_from_slice(data)
      [] scheme = "ByteGrouping2LZ4" -> bg2_lz4_decompress_from_slice(data)

\* std::io::copy: every byte left in the reader goes to the writer, in order;
\* the count of bytes copied is returned
copy(reader, writer) == [ret |-> Ok(Len(reader)), writer |-> writer \o reader]

\* a count of what the writer holds, not of what was written to it
decode_then_write_counts_writer(decoded, writer) ==
    IF decoded.ok
    THEN [ret |-> Ok(Len(writer \o decoded.val)), writer |-> writer \o decoded.val]
    ELSE [ret |-> decoded, writer |-> writer]

\* the framed schemes decode the whole reader, then write; a reader that does
\* not decode writes nothing
decode_then_write(decoded, writer) ==
    IF decoded.ok
    THEN [ret |-> Ok(Len(decoded.val)), writer |-> writer \o decoded.val]
    ELSE [ret |-> decoded, writer |-> writer]

decompress_from_reader(scheme, reader, writer) ==
    CASE scheme = "None" -> copy(reader, writer)
      [] scheme = "LZ4" -> decode_then_write(lz4_decompress_from_slice(reader), writer)
      [] scheme = "ByteGrouping4LZ4" ->
            decode_then_write(bg4_lz4_decompress_from_slice(reader), writer)
      [] scheme = "ByteGrouping2LZ4" ->
            decode_then_write(bg2_lz4_decompress_from_slice(reader), writer)

(***************************************************************************)
(* The scheme's tag byte: #[repr(u8)] gives each variant its byte, and     *)
(* TryFrom<u8> reads a byte back.                                          *)
(***************************************************************************)
Bytes == 0..255

\* `scheme as u8`
to_u8(scheme) ==
    CASE scheme = "None" -> 0
      [] scheme = "LZ4" -> 1
      [] scheme = "ByteGrouping4LZ4" -> 2
      [] scheme = "ByteGrouping2LZ4" -> 3

\* a conversion that knows the first three variants only
try_from_rejects_3(value) ==
    CASE value = 0 -> Ok("None")
      [] value = 1 -> Ok("LZ4")
      [] value = 2 -> Ok("ByteGrouping4LZ4")
      [] OTHER -> Err("FormatError")

\* a conversion whose last arm names the wrong variant
try_from_3_as_bg4(value) ==
    CASE value = 0 -> Ok("None")
      [] value = 1 -> Ok("LZ4")
      [] value = 2 -> Ok("ByteGrouping4LZ4")
      [] value = 3 -> Ok("ByteGrouping4LZ4")
      [] OTHER -> Err("FormatError")

\* TryFrom<u8> for CompressionScheme
try_from(value) ==
    CASE value = 0 -> Ok("None")
      [] value = 1 -> Ok("LZ4")
      [] value = 2 -> Ok("ByteGrouping4LZ4")
      [] value = 3 -> Ok("ByteGrouping2LZ4")
      [] OTHER -> Err("FormatError")

(***************************************************************************)
(* Hashes and keys.  A MerkleHash is modelled one byte wide (two hex       *)
(* digits instead of 64); everything else about it is as in the code.      *)
(***************************************************************************)
HexDigit(d) == IF d < 10 THEN 48 + d ELSE 87 + d

\* MerkleHash::hex / Display: lower-case hex
hex(h) == << HexDigit(h \div 16), HexDigit(h % 16) >>

IsHexDigit(c) == (c >= 48 /\ c <= 57) \/ (c >= 97 /\ c <= 102)

HexValue(c) == IF c <= 57 THEN c - 48 ELSE c - 87

\* MerkleHash::from_hex: exactly the fixed number of hex digits
from_hex(s) ==
    IF Len(s) = 2 /\ IsHexDigit(s[1]) /\ IsHexDigit(s[2])
    THEN Ok(16 * HexValue(s[1]) + HexValue(s[2]))
    ELSE Err("InvalidHex")

SLASH == << 47 >>

\* Display for Key: "prefix/hex-hash"
key_to_string(key) == key.prefix \o SLASH \o hex(key.hash)

\* the positions of '/' in a string
SlashPositions(s) == { i \in 1..Len(s) : s[i] = SLASH[1] }

Max(S) == CHOOSE x \in S : \A y \in S : y <= x

\* FromStr for Key: split at the last '/', the rest must be a hash in hex
key_from_str(s) ==
    IF SlashPositions(s) = {} THEN Err("InvalidKey")
    ELSE LET p == Max(SlashPositions(s))
             h == from_hex(Drop(s, p))
         IN  IF h.ok THEN Ok([prefix |-> Take(s, p - 1), hash |-> h.val])
             ELSE Err("InvalidKey")

\* String::from_utf8 on the byte strings of this model, which are ASCII
\* except for the byte 255 (never valid in UTF-8)
from_utf8(b) ==
    IF \A i \in 1..Len(b) : b[i] < 128 THEN Ok(b) ELSE Err("FromUtf8Error")

MDB_EXTENSION == << 46, 109, 100, 98 >>

\* a rename that keeps the hash's file name but drops ".mdb"
local_shard_name_no_extension(hash) == hex(hash)

\* local_shard_name: "{hex(hash)}.mdb"
local_shard_name(hash) == hex(hash) \o MDB_EXTENSION

(***************************************************************************)
(* The retry policy of the client.                                         *)
(***************************************************************************)
NUM_RETRIES == 5

\* a network-level failure carries no HTTP status
NoStatus == 0

TOO_MANY_REQUESTS == 429

\* StatusCode::is_server_error
is_server_error(stat) == stat >= 500 /\ stat < 600

\* a retry predicate that forgets rate limiting and retries client errors
retry_http_status_code_any_error(stat) == stat >= 400 /\ stat < 600

\* a retry predicate that knows one server error only
retry_http_status_code_only_500(stat) == stat = 500 \/ stat = TOO_MANY_REQUESTS

\* a retry predicate that only retries rate limiting
retry_http_status_code_only_429(stat) == stat = TOO_MANY_REQUESTS

retry_http_status_code(stat) == is_server_error(stat) \/ stat = TOO_MANY_REQUESTS

\* network issues are not retried
is_status_retriable_no_network(err) ==
    IF err.status = NoStatus THEN FALSE ELSE retry_http_status_code(err.status)

is_status_retriable_and_print(err) ==
    IF err.status = NoStatus THEN TRUE ELSE retry_http_status_code(err.status)

\* what send() hands to the retry loop for a server answer: a response for a
\* success status, otherwise an error carrying the status (none for a
\* network failure)
send_result(status, body) ==
    IF status >= 200 /\ status < 300 THEN Ok(body) ELSE Err([status |-> status])

\* RetryStrategy::retry after one more attempt has ended with `r`, the
\* `attempts`-th of the call: "return" the result or "retry"
retry_decision(max_attempts, attempts, r, retry_condition_holds) ==
    IF r.ok THEN "return"
    ELSE IF attempts < max_attempts /\ retry_condition_holds THEN "retry"
    ELSE "return"

(***************************************************************************)
(* The chunk-probe wire format: per record                                 *)
(*   key_length u32 LE, key bytes, content_length u32 LE, content bytes.   *)
(***************************************************************************)
\* read_u32: four bytes, little endian; fails on a shorter rest
read_u32(reader) ==
    IF Len(reader) < 4 THEN Err("IOError")
    ELSE Ok([value |-> FromU32LE(Take(reader, 4)), rest |-> Drop(reader, 4)])

\* Read::read_exact of n bytes
read_exact(reader, n) ==
    IF Len(reader) < n THEN Err("IOError")
    ELSE Ok([value |-> Take(reader, n), rest |-> Drop(reader, n)])

\* what one turn of the record loop does
LoopStep(step, err, hash, content, rest) ==
    [step |-> step, err |-> err, hash |-> hash, content |-> content, rest |-> rest]

\* a loop that takes the end of the body for a cut-off record
parse_record_eof_is_error(reader) ==
    LET kl == read_u32(reader)
    IN  IF ~kl.ok THEN LoopStep("error", "IOError", 0, << >>, reader)
        ELSE LET kb == read_exact(kl.val.rest, kl.val.value)
        IN  IF ~kb.ok THEN LoopStep("error", "IOError", 0, << >>, reader)
        ELSE LET str == from_utf8(kb.val.value)
        IN  IF ~str.ok THEN LoopStep("error", "InvalidShardKey", 0, << >>, reader)
        ELSE LET key == key_from_str(str.val)
        IN  IF ~key.ok THEN LoopStep("error", "InvalidShardKey", 0, << >>, reader)
        ELSE LET cl == read_u32(kb.val.rest)
        IN  IF ~cl.ok THEN LoopStep("error", "IOError", key.val.hash, << >>, reader)
        ELSE LET cb == read_exact(cl.val.rest, cl.val.value)
        IN  IF ~cb.ok THEN LoopStep("error", "IOError", key.val.hash, << >>, reader)
        ELSE LoopStep("spawn", NoValue, key.val.hash, cb.val.value, cb.val.rest)

\* a loop that tells a cut-off length prefix from the end of the body
parse_record_short_prefix_is_error(reader) ==
    LET kl == read_u32(reader)
    IN  IF ~kl.ok THEN IF Len(reader) = 0
                       THEN LoopStep("break", NoValue, 0, << >>, reader)
                       ELSE LoopStep("error", "IOError", 0, << >>, reader)
        ELSE LET kb == read_exact(kl.val.rest, kl.val.value)
        IN  IF ~kb.ok THEN LoopStep("error", "IOError", 0, << >>, reader)
        ELSE LET str == from_utf8(kb.val.value)
        IN  IF ~str.ok THEN LoopStep("error", "InvalidShardKey", 0, << >>, reader)
        ELSE LET key == key_from_str(str.val)
        IN  IF ~key.ok THEN LoopStep("error", "InvalidShardKey", 0, << >>, reader)
        ELSE LET cl == read_u32(kb.val.rest)
        IN  IF ~cl.ok THEN LoopStep("error", "IOError", key.val.hash, << >>, reader)
        ELSE LET cb == read_exact(cl.val.rest, cl.val.value)
        IN  IF ~cb.ok THEN LoopStep("error", "IOError", key.val.hash, << >>, reader)
        ELSE LoopStep("spawn", NoValue, key.val.hash, cb.val.value, cb.val.rest)

\* a loop that writes what it got of a record whose content is cut off
parse_record_spawns_partial(reader) ==
    LET kl == read_u32(reader)
    IN  IF ~kl.ok THEN LoopStep("break", NoValue, 0, << >>, reader)
        ELSE LET kb == read_exact(kl.val.rest, kl.val.value)
        IN  IF ~kb.ok THEN LoopStep("error", "IOError", 0, << >>, reader)
        ELSE LET str == from_utf8(kb.val.value)
        IN  IF ~str.ok THEN LoopStep("error", "InvalidShardKey", 0, << >>, reader)
        ELSE LET key == key_from_str(str.val)
        IN  IF ~key.ok THEN LoopStep("error", "InvalidShardKey", 0, << >>, reader)
        ELSE LET cl == read_u32(kb.val.rest)
        IN  IF ~cl.ok THEN LoopStep("error", "IOError", key.val.hash, << >>, reader)
        ELSE LET cb == read_exact(cl.val.rest, cl.val.value)
        IN  IF ~cb.ok THEN LoopStep("spawn", NoValue, key.val.hash, cl.val.rest, << >>)
        ELSE LoopStep("spawn", NoValue, key.val.hash, cb.val.value, cb.val.rest)

\* one turn of the loop of get_dedup_shards over the response body
parse_record(reader) ==
    LET kl == read_u32(reader)
    IN  IF ~kl.ok THEN LoopStep("break", NoValue, 0, << >>, reader)
        ELSE LET kb == read_exact(kl.val.rest, kl.val.value)
        IN  IF ~kb.ok THEN LoopStep("error", "IOError", 0, << >>, reader)
        ELSE LET str == from_utf8(kb.val.value)
        IN  IF ~str.ok THEN LoopStep("error", "InvalidShardKey", 0, << >>, reader)
        ELSE LET key == key_from_str(str.val)
        IN  IF ~key.ok THEN LoopStep("error", "InvalidShardKey", 0, << >>, reader)
        ELSE LET cl == read_u32(kb.val.rest)
        IN  IF ~cl.ok THEN LoopStep("error", "IOError", key.val.hash, << >>, reader)
        ELSE LET cb == read_exact(cl.val.rest, cl.val.value)
        IN  IF ~cb.ok THEN LoopStep("error", "IOError", key.val.hash, << >>, reader)
        ELSE LoopStep("spawn", NoValue, key.val.hash, cb.val.value, cb.val.rest)

(***************************************************************************)
(* The JSON bodies (cas_types).  A body is the document the server sent;   *)
(* text_ok says whether it is JSON at all.  serde checks every field.      *)
(***************************************************************************)
\* UploadShardResponseType, serde_repr over u8: 0 = Exists, 1 = SyncPerformed
UploadShardResponseType(n) ==
    IF n = 0 THEN Ok("Exists") ELSE IF n = 1 THEN Ok("SyncPerformed") ELSE Err("JSON")

\* serde_json::from_reader::<UploadShardResponse>
parse_upload_shard_response(doc) ==
    IF ~doc.text_ok THEN Err("JSON")
    ELSE LET t == UploadShardResponseType(doc.result)
         IN  IF t.ok THEN Ok([result |-> t.val, sha_mapping |-> doc.sha_mapping])
             ELSE t

\* one CASReconstructionTerm; its hash is a HexMerkleHash, read from hex
parse_term(t) ==
    LET h == from_hex(t.hash)
    IN  IF h.ok
        THEN Ok([hash |-> h.val, unpacked_length |-> t.unpacked_length,
                 range |-> t.range, url |-> t.url, url_range |-> t.url_range])
        ELSE Err("JSON")

\* serde_json::from_reader::<QueryReconstructionResponse>
parse_reconstruction_response(doc) ==
    IF ~doc.text_ok THEN Err("JSON")
    ELSE IF \E i \in 1..Len(doc.reconstruction) : ~parse_term(doc.reconstruction[i]).ok
    THEN Err("JSON")
    ELSE Ok([offset_into_first_range |-> doc.offset_into_first_range,
             reconstruction |->
                 [i \in 1..Len(doc.reconstruction) |-> parse_term(doc.reconstruction[i]).val]])

\* FileDataSequenceHeader::new(file_hash, num_entries)
FileDataSequenceHeader(file_hash, num_entries) ==
    [file_hash |-> file_hash, num_entries |-> num_entries]

\* FileDataSequenceEntry::new(cas_hash, unpacked_segment_bytes, start, end)
FileDataSequenceEntry(cas_hash, unpacked_segment_bytes, chunk_index_start, chunk_index_end) ==
    [cas_hash |-> cas_hash, unpacked_segment_bytes |-> unpacked_segment_bytes,
     chunk_index_start |-> chunk_index_start, chunk_index_end |-> chunk_index_end]

\* a translation that builds every segment from the first term
to_file_info_first_term_only(file_hash, info) ==
    [metadata |-> FileDataSequenceHeader(file_hash, Len(info.reconstruction)),
     segments |->
        [i \in 1..Len(info.reconstruction) |->
            LET ce == info.reconstruction[1]
            IN  FileDataSequenceEntry(ce.hash, ce.unpacked_length,
                                      ce.range.start, ce.range.end)]]

\* the MDBFileInfo that get_file_reconstruction_info builds from the response
to_file_info(file_hash, info) ==
    [metadata |-> FileDataSequenceHeader(file_hash, Len(info.reconstruction)),
     segments |->
        [i \in 1..Len(info.reconstruction) |->
            LET ce == info.reconstruction[i]
            IN  FileDataSequenceEntry(ce.hash, ce.unpacked_length,
                                      ce.range.start, ce.range.end)]]

(***************************************************************************)
(* The environment the model draws from: the calls made on the client and  *)
(* what the server answers.                                                *)
(***************************************************************************)
\* "ns"
PREFIX == << 110, 115 >>

\* the shards the server knows, 0xaa and 0xbb, and their bytes "X" and "YZ"
\* (a shard's hash is the hash of its bytes: one hash, one content)
ShardHashes == { 170, 187 }

ShardBytes(h) == IF h = 170 THEN << 88 >> ELSE << 89, 90 >>

EncodeRecord(key, content) ==
    U32LE(Len(key)) \o key \o U32LE(Len(content)) \o content

ShardRecord(h) == EncodeRecord(key_to_string([prefix |-> PREFIX, hash |-> h]), ShardBytes(h))

RECURSIVE EncodeRecords(_)
EncodeRecords(hs) ==
    IF Len(hs) = 0 THEN << >> ELSE ShardRecord(hs[1]) \o EncodeRecords(Tail(hs))

HashSeqs(n) == UNION { [1..m -> ShardHashes] : m \in 0..n }

\* what may follow the complete records of a body: nothing, a cut-off record,
\* or a record whose key does not parse
BodyTails ==
    { << >>,
      << 5 >>,
      << 5, 0 >>,
      << 5, 0, 0 >>,
      Take(ShardRecord(170), 6),
      Take(ShardRecord(170), 11),
      Take(ShardRecord(187), Len(ShardRecord(187)) - 1),
      EncodeRecord(<< 110, 115, 97, 97 >>, ShardBytes(170)),
      EncodeRecord(<< 110, 115, 47, 122, 122 >>, ShardBytes(170)),
      EncodeRecord(<< 110, 255, 47, 97, 97 >>, ShardBytes(170)) }

ProbeBodies == { EncodeRecords(hs) \o t : hs \in HashSeqs(MaxRecords), t \in BodyTails }

\* samples: no record, two records, a record whose key has no '/'
SampleProbeBodies ==
    { << >>,
      EncodeRecords(<< 170, 187 >>),
      ShardRecord(187) \o EncodeRecord(<< 110, 115, 97, 97 >>, ShardBytes(170)) }

TermSamples ==
    { [hash |-> hex(170), unpacked_length |-> 100, range |-> [start |-> 0, end |-> 1],
       url |-> "U", url_range |-> [start |-> 0, end |-> 100]],
      [hash |-> hex(187), unpacked_length |-> 7, range |-> [start |-> 1, end |-> 3],
       url |-> "V", url_range |-> [start |-> 100, end |-> 107]],
      [hash |-> << 122, 122 >>, unpacked_length |-> 7, range |-> [start |-> 0, end |-> 1],
       url |-> "U", url_range |-> [start |-> 0, end |-> 7]] }

\* the last one is not JSON
ReconstructionBodies ==
    { [text_ok |-> TRUE, offset_into_first_range |-> o, reconstruction |-> ts] :
        o \in { 0, 10 },
        ts \in UNION { [1..m -> TermSamples] : m \in 0..MaxTerms } }
    \cup { [text_ok |-> FALSE, offset_into_first_range |-> 0, reconstruction |-> << >>] }

UploadBodies ==
    { [text_ok |-> TRUE, result |-> r, sha_mapping |-> m] :
        r \in { 0, 1, 2 }, m \in { "None", "Some" } }
    \cup { [text_ok |-> FALSE, result |-> 0, sha_mapping |-> "None"] }

Ops == { "upload_shard", "get_file_reconstruction_info", "get_dedup_shards" }

Calls ==
    { [op |-> "upload_shard", force_sync |-> f, prefix |-> PREFIX, hash |-> 170,
       shard_data |-> ShardBytes(170)] : f \in BOOLEAN }
    \cup { [op |-> "get_file_reconstruction_info", force_sync |-> FALSE, prefix |-> PREFIX,
            hash |-> 204, shard_data |-> << >>],
           [op |-> "get_dedup_shards", force_sync |-> FALSE, prefix |-> PREFIX,
            hash |-> 221, shard_data |-> << >>] }

NoCall == [op |-> "none", force_sync |-> FALSE, prefix |-> << >>, hash |-> 0,
           shard_data |-> << >>]

\* samples: a well-formed answer and one that is not JSON
SampleUploadBodies ==
    { [text_ok |-> TRUE, result |-> 1, sha_mapping |-> "Some"],
      [text_ok |-> FALSE, result |-> 0, sha_mapping |-> "None"] }

SampleReconstructionBodies ==
    { b \in ReconstructionBodies :
        \/ ~b.text_ok
        \/ /\ b.offset_into_first_range = 10
           /\ Len(b.reconstruction) = 1
           /\ b.reconstruction[1].unpacked_length = 100 }

\* the bodies a server may answer a call with: any, or the samples
AnyBodies ==
    [upload_shard |-> UploadBodies,
     get_file_reconstruction_info |-> ReconstructionBodies,
     get_dedup_shards |-> ProbeBodies]

SampleBodies ==
    [upload_shard |-> SampleUploadBodies,
     get_file_reconstruction_info |-> SampleReconstructionBodies,
     get_dedup_shards |-> SampleProbeBodies]

\* the statuses the server answers with; NoStatus is a network failure
Statuses == { NoStatus, 200, 400, 404, 429, 500, 503 }

\* the statuses of the runs that look at the bodies
FewStatuses == { 200, 404, 500 }

(***************************************************************************)
(* The requests the three calls build.                                     *)
(***************************************************************************)
\* an upload that is always a POST
RequestAlwaysPost(c) ==
    CASE c.op = "upload_shard" ->
            [method |-> "POST", route |-> "shard",
             path |-> key_to_string([prefix |-> c.prefix, hash |-> c.hash]),
             body |-> c.shard_data]
      [] c.op = "get_file_reconstruction_info" ->
            [method |-> "GET", route |-> "reconstruction", path |-> hex(c.hash),
             body |-> << >>]
      [] c.op = "get_dedup_shards" ->
            [method |-> "GET", route |-> "chunk",
             path |-> key_to_string([prefix |-> c.prefix, hash |-> c.hash]),
             body |-> << >>]

Request(c) ==
    CASE c.op = "upload_shard" ->
            [method |-> IF c.force_sync THEN "PUT" ELSE "POST", route |-> "shard",
             path |-> key_to_string([prefix |-> c.prefix, hash |-> c.hash]),
             body |-> c.shard_data]
      [] c.op = "get_file_reconstruction_info" ->
            [method |-> "GET", route |-> "reconstruction", path |-> hex(c.hash),
             body |-> << >>]
      [] c.op = "get_dedup_shards" ->
            [method |-> "GET", route |-> "chunk",
             path |-> key_to_string([prefix |-> c.prefix, hash |-> c.hash]),
             body |-> << >>]

\* ShardClientError
ShardClientError(kind, status) == [kind |-> kind, status |-> status]

(***************************************************************************)
(* State.                                                                  *)
(***************************************************************************)
VARIABLES
    \* the codec exercised on one payload
    c_pc,           \* "start", "compressed", "done", "copied", or "off"
    c_scheme,       \* the CompressionScheme in use
    c_input,        \* the payload given to compress_from_slice
    c_compressed,   \* Result of compress_from_slice
    c_output,       \* Result of decompress_from_slice
    c_writer,       \* the writer given to decompress_from_reader: what it held
                    \* before the call, and what it holds now
    c_copied,       \* Result of decompress_from_reader
    \* HttpShardClient and the call in progress on it
    cache_directory,    \* "Some" or "None": the client's configuration
    pc,                 \* where the call is: "idle", "send", "wait", "body",
                        \* "parse", "join", "done"; "off" when not exercised
    call,               \* the call and its arguments
    sent,               \* the requests issued by the call so far, in order
    history,            \* the status each finished attempt ended with
    response,           \* the body of the response the retry loop returned
    reader,             \* get_dedup_shards: the unread rest of the body
    downloaded_shards,  \* get_dedup_shards: the hashes pushed so far
    tasks,              \* get_dedup_shards: the write tasks spawned, in order
    files,              \* the cache directory: a set of [name, data]
    result,             \* what the call returned, once pc = "done"
    \* the scheme's tag byte converted and converted back
    t_pc,           \* "start", "converted", "done", or "off"
    t_byte,         \* the byte given to try_from
    t_scheme,       \* Result of try_from
    t_back,         \* the scheme as u8
    \* ReconstructionClient::batch_get_file
    b_pc,           \* "start", "loop", "await", "done", or "off"
    b_files,        \* the map given: hash -> what get_file returns for it
    b_todo,         \* the entries the for loop has not reached
    b_calls,        \* the hashes get_file was called with, in order
    n_bytes,        \* the running total
    b_result,       \* what batch_get_file returned
    b_in_flight,    \* the hashes whose get_file has been called and has not returned
    b_written,      \* the hashes whose writer has received its file
    \* UploadClient::put
    p_pc,           \* "start", "send", "wait", "done", or "off"
    p_data,         \* data
    p_boundaries,   \* the boundaries of chunk_and_boundaries
    p_requests,     \* the network calls made
    p_result,       \* what put returned
    \* a WriteProvider and the writers taken from it
    w_pc,           \* "idle", "ready", "written", or "off"
    w_kind,         \* "File" or "Buffer"
    w_dest,         \* the bytes of the file, or of the buffer
    w_cursor,       \* Buffer: the position of the shared Cursor
    w_writer,       \* the writer in use: where it was asked to start, where it is
    w_last,         \* the last write: the position the contract gives it, the bytes
    w_count,        \* the writes made so far
    w_writers,      \* two writers of one provider, each with a range of its own:
                    \* the range, the chunks still to write, the writer once obtained
    \* ThreadPool
    runtime,                    \* "Some" or "None": the Option in the RwLock
    runtime_dropped,            \* how many times a Runtime has been dropped
    sd_threads,                 \* the threads in perform_sigint_shutdown: where
                                \* each is, and what it took out of the RwLock
    sigint_shutdown,            \* the AtomicBool
    external_executor_count,    \* the AtomicUsize
    tp_callers,     \* the threads outside the pool: where each is in
                    \* external_run_async_task, and what it got
    tp_tasks        \* the tasks on the runtime, those of the callers and those
                    \* of spawn

codec_vars == << c_pc, c_scheme, c_input, c_compressed, c_output, c_writer, c_copied >>

shard_vars == << cache_directory, pc, call, sent, history, response, reader,
                 downloaded_shards, tasks, files, result >>

tag_vars == << t_pc, t_byte, t_scheme, t_back >>

batch_vars == << b_pc, b_files, b_todo, b_calls, n_bytes, b_result, b_in_flight, b_written >>

put_vars == << p_pc, p_data, p_boundaries, p_requests, p_result >>

writer_vars == << w_pc, w_kind, w_dest, w_cursor, w_writer, w_last, w_count, w_writers >>

pool_vars == << runtime, runtime_dropped, sd_threads, sigint_shutdown,
               external_executor_count, tp_callers, tp_tasks >>

aux_vars == << tag_vars, batch_vars, put_vars, writer_vars, pool_vars >>

vars == << codec_vars, shard_vars, aux_vars >>

\* the payload bytes the model draws from
DataBytes == { 0, 255 }

ByteSeqs(n) == UNION { [1..m -> DataBytes] : m \in 0..n }

CodecOff ==
    /\ c_pc = "off"
    /\ c_scheme = "None"
    /\ c_input = << >>
    /\ c_compressed = NoValue
    /\ c_output = NoValue
    /\ c_writer = NoValue
    /\ c_copied = NoValue

TagOff ==
    /\ t_pc = "off"
    /\ t_byte = 0
    /\ t_scheme = NoValue
    /\ t_back = NoValue

BatchOff ==
    /\ b_pc = "off"
    /\ b_files = << >>
    /\ b_todo = {}
    /\ b_calls = << >>
    /\ n_bytes = 0
    /\ b_result = NoValue
    /\ b_in_flight = {}
    /\ b_written = {}

PutOff ==
    /\ p_pc = "off"
    /\ p_data = << >>
    /\ p_boundaries = << >>
    /\ p_requests = 0
    /\ p_result = NoValue

WriterOff ==
    /\ w_pc = "off"
    /\ w_kind = "File"
    /\ w_dest = << >>
    /\ w_cursor = 0
    /\ w_writer = NoValue
    /\ w_last = NoValue
    /\ w_count = 0
    /\ w_writers = << >>

PoolOff ==
    /\ runtime = "None"
    /\ runtime_dropped = 0
    /\ sd_threads = << >>
    /\ sigint_shutdown = FALSE
    /\ external_executor_count = 0
    /\ tp_callers = << >>
    /\ tp_tasks = << >>

AuxOff == TagOff /\ BatchOff /\ PutOff /\ WriterOff /\ PoolOff

ShardOff ==
    /\ cache_directory = "None"
    /\ pc = "off"
    /\ call = NoCall
    /\ sent = << >>
    /\ history = << >>
    /\ response = NoValue
    /\ reader = << >>
    /\ downloaded_shards = << >>
    /\ tasks = << >>
    /\ files = {}
    /\ result = NoValue

(***************************************************************************)
(* The codec on one payload: compress it, then decompress the outcome.     *)
(***************************************************************************)
\* what the writer holds before decompress_from_reader
WriterContents == { << >>, << 7 >> }

CodecInit ==
    /\ c_pc = "start"
    /\ c_scheme \in CompressionScheme
    /\ c_input \in ByteSeqs(MaxLen)
    /\ c_compressed = NoValue
    /\ c_output = NoValue
    /\ c_writer = NoValue
    /\ c_copied = NoValue
    /\ ShardOff
    /\ AuxOff

Compress ==
    /\ c_pc = "start"
    /\ c_compressed' = compress_from_slice(c_scheme, c_input)
    /\ c_pc' = "compressed"
    /\ UNCHANGED << c_scheme, c_input, c_output, c_writer, c_copied, shard_vars, aux_vars >>

Decompress ==
    /\ c_pc = "compressed"
    /\ c_compressed.ok
    /\ c_output' = decompress_from_slice(c_scheme, c_compressed.val)
    /\ c_pc' = "done"
    /\ UNCHANGED << c_scheme, c_input, c_compressed, c_writer, c_copied, shard_vars, aux_vars >>

\* the same bytes once more, through a reader, into a writer that is empty or
\* already holds something
DecompressFromReader ==
    /\ c_pc = "done"
    /\ \E before \in WriterContents :
        LET r == decompress_from_reader(c_scheme, c_compressed.val, before)
        IN  /\ c_copied' = r.ret
            /\ c_writer' = [before |-> before, now |-> r.writer]
    /\ c_pc' = "copied"
    /\ UNCHANGED << c_scheme, c_input, c_compressed, c_output, shard_vars, aux_vars >>

CodecNext == Compress \/ Decompress \/ DecompressFromReader

SpecCodec == CodecInit /\ [][CodecNext]_vars

(***************************************************************************)
(* The tag byte: convert a byte to a scheme, and the scheme back.          *)
(***************************************************************************)
TagInit ==
    /\ t_pc = "start"
    /\ t_byte \in Bytes
    /\ t_scheme = NoValue
    /\ t_back = NoValue
    /\ CodecOff
    /\ ShardOff
    /\ BatchOff
    /\ PutOff
    /\ WriterOff
    /\ PoolOff

TryFrom ==
    /\ t_pc = "start"
    /\ t_scheme' = try_from(t_byte)
    /\ t_pc' = "converted"
    /\ UNCHANGED << t_byte, t_back, codec_vars, shard_vars,
                    batch_vars, put_vars, writer_vars,
                    pool_vars >>

AsU8 ==
    /\ t_pc = "converted"
    /\ t_scheme.ok
    /\ t_back' = to_u8(t_scheme.val)
    /\ t_pc' = "done"
    /\ UNCHANGED << t_byte, t_scheme, codec_vars, shard_vars,
                    batch_vars, put_vars, writer_vars,
                    pool_vars >>

TagNext == TryFrom \/ AsU8

SpecTag == TagInit /\ [][TagNext]_vars

(***************************************************************************)
(* ReconstructionClient::batch_get_file, the default method: one get_file  *)
(* per entry of the map, the byte counts added up.  get_file is the        *)
(* implementor's: here it returns what b_files holds for the hash.         *)
(***************************************************************************)
FileHashes == 1..MaxFiles

\* the byte counts get_file may return
FileSizes == { 0, 5, 7 }

GetFileResults == { Ok(n) : n \in FileSizes } \cup { Err("get_file") }

\* HashMap<MerkleHash, &WriteProvider>: one entry per hash
FileMaps == UNION { [S -> GetFileResults] : S \in SUBSET FileHashes }

\* a total that keeps the last count only
add_n_bytes_overwrite(total, n) == n

\* n_bytes += ...
add_n_bytes(total, n) == total + n

BatchInit ==
    /\ b_pc = "start"
    /\ b_files \in FileMaps
    /\ b_todo = {}
    /\ b_calls = << >>
    /\ n_bytes = 0
    /\ b_result = NoValue
    /\ b_in_flight = {}
    /\ b_written = {}
    /\ CodecOff
    /\ ShardOff
    /\ TagOff
    /\ PutOff
    /\ WriterOff
    /\ PoolOff

\* let mut n_bytes = 0; for (h, w) in files
BatchGetFile ==
    /\ b_pc = "start"
    /\ n_bytes' = 0
    /\ b_todo' = DOMAIN b_files
    /\ b_pc' = "loop"
    /\ UNCHANGED << b_files, b_calls, b_result, b_in_flight, b_written, codec_vars, shard_vars,
                    tag_vars, put_vars, writer_vars,
                    pool_vars >>

\* a loop that calls get_file for the next entry while the last call is
\* still awaited
BatchCallWithoutAwait ==
    /\ b_pc \in { "loop", "await" }
    /\ \E h \in b_todo :
        /\ b_calls' = Append(b_calls, h)
        /\ b_todo' = b_todo \ { h }
        /\ b_in_flight' = b_in_flight \cup { h }
    /\ b_pc' = "await"
    /\ UNCHANGED << b_files, n_bytes, b_result, b_written, codec_vars, shard_vars,
                    tag_vars, put_vars, writer_vars, pool_vars >>

\* self.get_file(&h, None, w, None) is called for the next entry in the map's
\* order, which is any
BatchCall ==
    /\ b_pc = "loop"
    /\ \E h \in b_todo :
        /\ b_calls' = Append(b_calls, h)
        /\ b_todo' = b_todo \ { h }
        /\ b_in_flight' = b_in_flight \cup { h }
    /\ b_pc' = "await"
    /\ UNCHANGED << b_files, n_bytes, b_result, b_written, codec_vars, shard_vars,
                    tag_vars, put_vars, writer_vars, pool_vars >>

\* a loop that leaves a failed file out and goes on
BatchAwaitSkipsErrors ==
    /\ b_pc = "await"
    /\ \E h \in b_in_flight :
        LET r == b_files[h]
        IN  /\ b_in_flight' = b_in_flight \ { h }
            /\ b_pc' = "loop"
            /\ IF r.ok
               THEN /\ n_bytes' = add_n_bytes(n_bytes, r.val)
                    /\ b_written' = b_written \cup { h }
               ELSE UNCHANGED << n_bytes, b_written >>
    /\ UNCHANGED << b_files, b_todo, b_calls, b_result, codec_vars, shard_vars,
                    tag_vars, put_vars, writer_vars, pool_vars >>

\* n_bytes += (the call).await?: get_file returns, with the count of the
\* bytes it wrote or with an error, which ends batch_get_file
BatchAwait ==
    /\ b_pc = "await"
    /\ \E h \in b_in_flight :
        LET r == b_files[h]
        IN  /\ b_in_flight' = b_in_flight \ { h }
            /\ IF r.ok
               THEN /\ n_bytes' = add_n_bytes(n_bytes, r.val)
                    /\ b_written' = b_written \cup { h }
                    /\ b_pc' = "loop"
                    /\ UNCHANGED b_result
               ELSE /\ b_result' = r
                    /\ b_pc' = "done"
                    /\ UNCHANGED << n_bytes, b_written >>
    /\ UNCHANGED << b_files, b_todo, b_calls, codec_vars, shard_vars,
                    tag_vars, put_vars, writer_vars, pool_vars >>

\* Ok(n_bytes)
BatchReturn ==
    /\ b_pc = "loop"
    /\ b_todo = {}
    /\ b_result' = Ok(n_bytes)
    /\ b_pc' = "done"
    /\ UNCHANGED << b_files, b_todo, b_calls, n_bytes, b_in_flight, b_written,
                    codec_vars, shard_vars, tag_vars, put_vars, writer_vars,
                    pool_vars >>

BatchNext == BatchGetFile \/ BatchCall \/ BatchAwait \/ BatchReturn

SpecBatch == BatchInit /\ [][BatchNext]_vars

(***************************************************************************)
(* UploadClient::put.  The trait states the contract: the boundaries are   *)
(* complete, that is the last one is the length of data, and empty data    *)
(* and empty boundaries are not accepted.  An implementor checks it before *)
(* anything goes to the network.                                           *)
(***************************************************************************)
\* data of every length up to MaxData; the bytes do not matter to put
PutData == { [i \in 1..n |-> 0] : n \in 0..MaxData }

\* the boundaries of chunk_and_boundaries: none, one or two
BoundaryValues == { 3, 5, 7, 10 }

PutBoundaries == UNION { [1..m -> BoundaryValues] : m \in 0..2 }

\* a check that forgets the last boundary
put_accepts_nonempty(data, boundaries) ==
    /\ data # << >>
    /\ boundaries # << >>

\* the preconditions of put
put_accepts(data, boundaries) ==
    /\ data # << >>
    /\ boundaries # << >>
    /\ boundaries[Len(boundaries)] = Len(data)

PutInit ==
    /\ p_pc = "start"
    /\ p_data \in PutData
    /\ p_boundaries \in PutBoundaries
    /\ p_requests = 0
    /\ p_result = NoValue
    /\ CodecOff
    /\ ShardOff
    /\ TagOff
    /\ BatchOff
    /\ WriterOff
    /\ PoolOff

\* put looks at its arguments
PutCheck ==
    /\ p_pc = "start"
    /\ IF put_accepts(p_data, p_boundaries)
       THEN p_pc' = "send" /\ UNCHANGED p_result
       ELSE p_pc' = "done" /\ p_result' = Err("InvalidArguments")
    /\ UNCHANGED << p_data, p_boundaries, p_requests, codec_vars, shard_vars,
                    tag_vars, batch_vars, writer_vars,
                    pool_vars >>

\* the XORB goes to the server
PutSend ==
    /\ p_pc = "send"
    /\ p_requests' = p_requests + 1
    /\ p_pc' = "wait"
    /\ UNCHANGED << p_data, p_boundaries, p_result, codec_vars, shard_vars,
                    tag_vars, batch_vars, writer_vars,
                    pool_vars >>

\* the server stores it, or the network fails
PutReceive ==
    /\ p_pc = "wait"
    /\ p_result' \in { Ok(Len(p_data)), Err("Network") }
    /\ p_pc' = "done"
    /\ UNCHANGED << p_data, p_boundaries, p_requests, codec_vars, shard_vars,
                    tag_vars, batch_vars, writer_vars,
                    pool_vars >>

PutNext == PutCheck \/ PutSend \/ PutReceive

SpecPut == PutInit /\ [][PutNext]_vars

(***************************************************************************)
(* WriteProvider.  File: get_writer_at opens the file (created if absent,  *)
(* never truncated) and seeks to start.  Buffer: get_writer_at hands out a *)
(* clone of the one ThreadSafeBuffer, an Arc of a Mutex of a Cursor, and   *)
(* does not use its argument.  Writers are taken one after the other.      *)
(***************************************************************************)
WriteProviderKinds == { "File", "Buffer" }

\* the chunks a writer is given
WriteChunks == { << 1 >>, << 2, 3 >> }

\* the file a FileWriteProvider names may exist
InitialFiles == { << >>, << 9, 9 >> }

\* WriteProvider::get_writer_at: the writer and the position it writes at
get_writer_at(kind, start, cursor) ==
    IF kind = "File"
    THEN [start |-> start, written |-> 0, pos |-> start]
    ELSE [start |-> start, written |-> 0, pos |-> cursor]

\* File::write and Cursor<Vec<u8>>::write: the bytes go to position pos, over
\* what is there; a gap before pos reads as zeros
write_at(dest, pos, buf) ==
    LET end == IF pos + Len(buf) > Len(dest) THEN pos + Len(buf) ELSE Len(dest)
    IN  [i \in 1..end |->
            IF i > pos /\ i <= pos + Len(buf) THEN buf[i - pos]
            ELSE IF i <= Len(dest) THEN dest[i]
            ELSE 0]

WriterInit ==
    /\ w_pc = "idle"
    /\ w_kind \in WriteProviderKinds
    /\ w_dest \in (IF w_kind = "File" THEN InitialFiles ELSE { << >> })
    /\ w_cursor = 0
    /\ w_writer = NoValue
    /\ w_last = NoValue
    /\ w_count = 0
    /\ w_writers = << >>
    /\ CodecOff
    /\ ShardOff
    /\ TagOff
    /\ BatchOff
    /\ PutOff
    /\ PoolOff

GetWriterAt ==
    /\ w_pc \in { "idle", "ready", "written" }
    /\ \E start \in 0..MaxOffset :
        w_writer' = get_writer_at(w_kind, start, w_cursor)
    /\ w_pc' = "ready"
    /\ UNCHANGED << w_kind, w_dest, w_cursor, w_last, w_count, w_writers, codec_vars, shard_vars,
                    tag_vars, batch_vars, put_vars,
                    pool_vars >>

\* one write of the writer in use
Write ==
    /\ w_pc \in { "ready", "written" }
    /\ w_count < MaxWrites
    /\ \E buf \in WriteChunks :
        /\ w_dest' = write_at(w_dest, w_writer.pos, buf)
        /\ w_writer' = [w_writer EXCEPT !.pos = @ + Len(buf), !.written = @ + Len(buf)]
        /\ w_cursor' = IF w_kind = "Buffer" THEN w_writer.pos + Len(buf) ELSE w_cursor
        /\ w_last' = [at |-> w_writer.start + w_writer.written, bytes |-> buf]
    /\ w_count' = w_count + 1
    /\ w_pc' = "written"
    /\ UNCHANGED << w_kind, w_writers, codec_vars, shard_vars, tag_vars, batch_vars, put_vars,
                    pool_vars >>

WriterNext == GetWriterAt \/ Write

SpecWriter == WriterInit /\ [][WriterNext]_vars

(***************************************************************************)
(* ThreadPool (utils/src/threadpool.rs): a tokio multi-thread runtime in   *)
(* an RwLock<Option<..>>, a Handle to it, and two atomics.  A task on the  *)
(* runtime is queued, then polled; a poll ends with the task yielded at an *)
(* .await, finished, or panicked.  Dropping the runtime drops every task   *)
(* that is not being polled, and a task being polled when it next yields;  *)
(* a task spawned through the Handle afterwards is dropped at once.  The   *)
(* JoinHandle of a dropped task resolves to a JoinError that is_cancelled. *)
(***************************************************************************)
\* usize, scaled to 16 bits: fetch_add and fetch_sub wrap around
USIZE_SPAN == 65536

fetch_add(value, n) == (value + n) % USIZE_SPAN

fetch_sub(value, n) == (value + USIZE_SPAN - n) % USIZE_SPAN

Callers == 1..MaxCallers

\* the task handed to spawn: tasks do not act on one another, so one stands for all
Spawned == { MaxCallers + 1 }

NoTask == [state |-> "none"]

IdleCaller == [pc |-> "idle", ret |-> NoValue, at_shutdown |-> "none"]

\* a mapping that does not look for a panic first
join_result_panic_as_cancelled(state) ==
    CASE state = "finished" -> "Output"
      [] state = "panicked" -> "TaskCanceled"
      [] state = "cancelled" -> "TaskCanceled"

\* a mapping that does not tell a cancelled task from any other join error
join_result_cancel_as_other(state) ==
    CASE state = "finished" -> "Output"
      [] state = "panicked" -> "TaskPanic"
      [] state = "cancelled" -> "Other"

\* tokio::spawn(future).await.map_err(..): the output, or the JoinError as a
\* MultithreadedRuntimeError
join_result(state) ==
    CASE state = "finished" -> "Output"
      [] state = "panicked" -> "TaskPanic"
      [] state = "cancelled" -> "TaskCanceled"

\* what the runtime does with a task handed to it through the Handle: it
\* queues it while it is alive, and drops it at once after it has been dropped
spawn_on(dropped) == IF dropped = 0 THEN "queued" ELSE "cancelled"

\* drop(runtime): every task that is not being polled is dropped
drop_runtime(ts) ==
    [t \in DOMAIN ts |->
        IF ts[t].state \in { "queued", "yielded" }
        THEN [ts[t] EXCEPT !.state = "cancelled"]
        ELSE ts[t]]

\* ThreadPool::new
PoolInit ==
    /\ runtime = "Some"
    /\ runtime_dropped = 0
    /\ sd_threads = << >>
    /\ sigint_shutdown = FALSE
    /\ external_executor_count = 0
    /\ tp_callers = [c \in Callers |-> IdleCaller]
    /\ tp_tasks = [t \in Callers \cup Spawned |-> NoTask]
    /\ CodecOff
    /\ ShardOff
    /\ TagOff
    /\ BatchOff
    /\ PutOff
    /\ WriterOff

PoolRest == << codec_vars, shard_vars, tag_vars, batch_vars, put_vars, writer_vars >>

\* external_run_async_task is entered: fetch_add(1)
ExternalRunAsyncTask(c) ==
    /\ tp_callers[c].pc = "idle"
    /\ external_executor_count' = fetch_add(external_executor_count, 1)
    /\ tp_callers' = [tp_callers EXCEPT ![c].pc = "counted"]
    /\ UNCHANGED << runtime, runtime_dropped, sd_threads, sigint_shutdown, tp_tasks, PoolRest >>

\* handle.block_on(async move { tokio::spawn(future).await ... }): the task
\* goes to the runtime and the thread waits for its JoinHandle
BlockOn(c) ==
    /\ tp_callers[c].pc = "counted"
    /\ tp_tasks' = [tp_tasks EXCEPT ![c].state = spawn_on(runtime_dropped)]
    /\ tp_callers' = [tp_callers EXCEPT ![c].pc = "blocking"]
    /\ UNCHANGED << runtime, runtime_dropped, sd_threads, sigint_shutdown, external_executor_count, PoolRest >>

\* ThreadPool::spawn
Spawn(t) ==
    /\ tp_tasks[t].state = "none"
    /\ tp_tasks' = [tp_tasks EXCEPT ![t].state = spawn_on(runtime_dropped)]
    /\ UNCHANGED << runtime, runtime_dropped, sd_threads, sigint_shutdown, external_executor_count, tp_callers, PoolRest >>

\* a worker thread polls a task
TaskPoll(t) ==
    /\ runtime_dropped = 0
    /\ tp_tasks[t].state \in { "queued", "yielded" }
    /\ tp_tasks' = [tp_tasks EXCEPT ![t].state = "running"]
    /\ UNCHANGED << runtime, runtime_dropped, sd_threads, sigint_shutdown, external_executor_count, tp_callers, PoolRest >>

\* the poll ends at an .await; after the shutdown the task is dropped there
TaskYield(t) ==
    /\ tp_tasks[t].state = "running"
    /\ tp_tasks' = [tp_tasks EXCEPT ![t].state =
                        IF runtime_dropped = 0 THEN "yielded" ELSE "cancelled"]
    /\ UNCHANGED << runtime, runtime_dropped, sd_threads, sigint_shutdown, external_executor_count, tp_callers, PoolRest >>

\* the poll ends with the future's output, or with a panic
TaskEnd(t) ==
    /\ tp_tasks[t].state = "running"
    /\ \E how \in { "finished", "panicked" } :
        tp_tasks' = [tp_tasks EXCEPT ![t].state = how]
    /\ UNCHANGED << runtime, runtime_dropped, sd_threads, sigint_shutdown, external_executor_count, tp_callers, PoolRest >>

\* the JoinHandle resolves and block_on returns
Join(c) ==
    /\ tp_callers[c].pc = "blocking"
    /\ tp_tasks[c].state \in { "finished", "panicked", "cancelled" }
    /\ tp_callers' = [tp_callers EXCEPT ![c].pc = "joined",
                                        ![c].ret = join_result(tp_tasks[c].state)]
    /\ UNCHANGED << runtime, runtime_dropped, sd_threads, sigint_shutdown, external_executor_count, tp_tasks, PoolRest >>

\* a return that leaves with the error before the count is taken back
ExternalReturnErrorSkipsCount(c) ==
    /\ tp_callers[c].pc = "joined"
    /\ external_executor_count' =
            IF tp_callers[c].ret = "Output" THEN fetch_sub(external_executor_count, 1)
            ELSE external_executor_count
    /\ tp_callers' = [tp_callers EXCEPT ![c].pc = "returned"]
    /\ UNCHANGED << runtime, runtime_dropped, sd_threads, sigint_shutdown, tp_tasks, PoolRest >>

\* fetch_sub(1); ret
ExternalReturn(c) ==
    /\ tp_callers[c].pc = "joined"
    /\ external_executor_count' = fetch_sub(external_executor_count, 1)
    /\ tp_callers' = [tp_callers EXCEPT ![c].pc = "returned"]
    /\ UNCHANGED << runtime, runtime_dropped, sd_threads, sigint_shutdown, tp_tasks, PoolRest >>

\* perform_sigint_shutdown: the flag is set, the runtime taken and dropped;
\* on a runtime already taken only the warning is left.  Each caller keeps,
\* for the record, the state its task was in.
PerformSigintShutdown ==
    /\ sigint_shutdown' = TRUE
    /\ IF runtime = "Some"
       THEN /\ runtime' = "None"
            /\ runtime_dropped' = runtime_dropped + 1
            /\ tp_tasks' = drop_runtime(tp_tasks)
            /\ tp_callers' = [c \in Callers |->
                    IF tp_callers[c].pc = "blocking"
                    THEN [tp_callers[c] EXCEPT !.at_shutdown = tp_tasks[c].state]
                    ELSE tp_callers[c]]
       ELSE UNCHANGED << runtime, runtime_dropped, tp_tasks, tp_callers >>
    /\ UNCHANGED << sd_threads, external_executor_count, PoolRest >>

PoolNext ==
    \/ \E c \in Callers : ExternalRunAsyncTask(c) \/ BlockOn(c) \/ Join(c) \/ ExternalReturn(c)
    \/ \E t \in Spawned : Spawn(t)
    \/ \E t \in Callers \cup Spawned : TaskPoll(t) \/ TaskYield(t) \/ TaskEnd(t)
    \/ PerformSigintShutdown

\* a poll ends, and a thread that can go on does
PoolFairness ==
    WF_vars(\/ \E t \in Callers \cup Spawned : TaskYield(t) \/ TaskEnd(t)
            \/ \E c \in Callers : BlockOn(c) \/ Join(c) \/ ExternalReturn(c))

SpecPool == PoolInit /\ [][PoolNext]_vars /\ PoolFairness

(***************************************************************************)
(* perform_sigint_shutdown statement by statement, called by several       *)
(* threads at once while a task is spawned and polled: the store of the    *)
(* flag, the take under the write lock, then the warning or the drop.      *)
(* (external_run_async_task reads and writes neither the flag nor the      *)
(* RwLock; its calls are followed under SpecPool.)                         *)
(***************************************************************************)
ShutdownThreads == 1..MaxShutdowns

IdleShutdown == [pc |-> "idle", got |-> NoValue]

\* ThreadPool::in_sigint_shutdown: the flag as loaded
in_sigint_shutdown == sigint_shutdown

ShutdownInit ==
    /\ runtime = "Some"
    /\ runtime_dropped = 0
    /\ sd_threads = [s \in ShutdownThreads |-> IdleShutdown]
    /\ sigint_shutdown = FALSE
    /\ external_executor_count = 0
    /\ tp_callers = [c \in Callers |-> IdleCaller]
    /\ tp_tasks = [t \in Callers \cup Spawned |-> NoTask]
    /\ CodecOff
    /\ ShardOff
    /\ TagOff
    /\ BatchOff
    /\ PutOff
    /\ WriterOff

\* a shutdown that clears the flag again once the runtime is gone
StoreFlagThenClear(s) ==
    /\ sd_threads[s].pc = "idle"
    /\ sigint_shutdown' = (runtime = "Some")
    /\ sd_threads' = [sd_threads EXCEPT ![s].pc = "stored"]
    /\ UNCHANGED << runtime, runtime_dropped, external_executor_count, tp_callers,
                    tp_tasks, PoolRest >>

\* self.sigint_shutdown.store(true, Ordering::SeqCst)
StoreFlag(s) ==
    /\ sd_threads[s].pc = "idle"
    /\ sigint_shutdown' = TRUE
    /\ sd_threads' = [sd_threads EXCEPT ![s].pc = "stored"]
    /\ UNCHANGED << runtime, runtime_dropped, external_executor_count, tp_callers,
                    tp_tasks, PoolRest >>

\* a shutdown that takes the runtime before it has set the flag
TakeRuntimeBeforeStore(s) ==
    /\ sd_threads[s].pc \in { "idle", "stored" }
    /\ sd_threads' = [sd_threads EXCEPT ![s].pc = "took", ![s].got = runtime]
    /\ runtime' = "None"
    /\ UNCHANGED << runtime_dropped, sigint_shutdown, external_executor_count,
                    tp_callers, tp_tasks, PoolRest >>

\* a shutdown that looks at the runtime and leaves it in its slot
TakeRuntimeLeavesIt(s) ==
    /\ sd_threads[s].pc = "stored"
    /\ sd_threads' = [sd_threads EXCEPT ![s].pc = "took", ![s].got = runtime]
    /\ UNCHANGED << runtime, runtime_dropped, sigint_shutdown, external_executor_count,
                    tp_callers, tp_tasks, PoolRest >>

\* self.runtime.write().expect(..).take(): under the write lock, the slot is
\* read and left empty in one step
TakeRuntime(s) ==
    /\ sd_threads[s].pc = "stored"
    /\ sd_threads' = [sd_threads EXCEPT ![s].pc = "took", ![s].got = runtime]
    /\ runtime' = "None"
    /\ UNCHANGED << runtime_dropped, sigint_shutdown, external_executor_count,
                    tp_callers, tp_tasks, PoolRest >>

\* let Some(runtime) = maybe_runtime else { eprintln!(WARNING ..); return; }
ReturnOnNone(s) ==
    /\ sd_threads[s].pc = "took"
    /\ sd_threads[s].got = "None"
    /\ sd_threads' = [sd_threads EXCEPT ![s].pc = "returned"]
    /\ UNCHANGED << runtime, runtime_dropped, sigint_shutdown, external_executor_count,
                    tp_callers, tp_tasks, PoolRest >>

\* drop(runtime)
DropRuntime(s) ==
    /\ sd_threads[s].pc = "took"
    /\ sd_threads[s].got = "Some"
    /\ runtime_dropped' = runtime_dropped + 1
    /\ tp_tasks' = drop_runtime(tp_tasks)
    /\ tp_callers' = [c \in Callers |->
            IF tp_callers[c].pc = "blocking"
            THEN [tp_callers[c] EXCEPT !.at_shutdown = tp_tasks[c].state]
            ELSE tp_callers[c]]
    /\ sd_threads' = [sd_threads EXCEPT ![s].pc = "returned"]
    /\ UNCHANGED << runtime, sigint_shutdown, external_executor_count, PoolRest >>

ShutdownNext ==
    \/ \E s \in ShutdownThreads :
            StoreFlag(s) \/ TakeRuntime(s) \/ ReturnOnNone(s) \/ DropRuntime(s)
    \/ \E t \in Spawned : Spawn(t) \/ TaskPoll(t) \/ TaskYield(t) \/ TaskEnd(t)

SpecShutdown == ShutdownInit /\ [][ShutdownNext]_vars

\* the writes each of the two writers makes: one chunk, or two
ChunkPlans(a, b) == { << << a >> >>, << << a, b >> >>, << << a >>, << b >> >> }

RECURSIVE Joined(_)
Joined(chunks) == IF Len(chunks) = 0 THEN << >> ELSE Head(chunks) \o Joined(Tail(chunks))

\* a writer-to-be: where its range starts, the bytes of the range, the
\* writes that are still to come
WriterPlans(a, b) ==
    { [start |-> st, data |-> Joined(ch), todo |-> ch, writer |-> NoValue, open |-> FALSE] :
        st \in 0..MaxOffset, ch \in ChunkPlans(a, b) }

Disjoint(p, q) ==
    \/ p.start + Len(p.data) <= q.start
    \/ q.start + Len(q.data) <= p.start

\* where the next write of a writer lands: a File keeps its own position, the
\* clones of a ThreadSafeBuffer share one Cursor
write_position(kind, writer, cursor) == IF kind = "File" THEN writer.pos ELSE cursor

WritersInit ==
    /\ w_pc = "pair"
    /\ w_kind \in WriteProviderKinds
    /\ w_dest \in (IF w_kind = "File" THEN InitialFiles ELSE { << >> })
    /\ w_cursor = 0
    /\ w_writer = NoValue
    /\ w_last = NoValue
    /\ w_count = 0
    /\ w_writers \in { << p, q >> : p \in WriterPlans(1, 2), q \in WriterPlans(3, 4) }
    /\ Disjoint(w_writers[1], w_writers[2])
    /\ CodecOff
    /\ ShardOff
    /\ TagOff
    /\ BatchOff
    /\ PutOff
    /\ PoolOff

\* get_writer_at(start) for writer i
GetWriterAtFor(i) ==
    /\ w_pc = "pair"
    /\ ~w_writers[i].open
    /\ w_writers' = [w_writers EXCEPT
            ![i].writer = get_writer_at(w_kind, w_writers[i].start, w_cursor),
            ![i].open = TRUE]
    /\ UNCHANGED << w_pc, w_kind, w_dest, w_cursor, w_writer, w_last, w_count,
                    codec_vars, shard_vars, tag_vars, batch_vars, put_vars, pool_vars >>

\* the next write of writer i
WriteOf(i) ==
    /\ w_pc = "pair"
    /\ w_writers[i].open
    /\ w_writers[i].todo # << >>
    /\ LET buf == Head(w_writers[i].todo)
           pos == write_position(w_kind, w_writers[i].writer, w_cursor)
       IN  /\ w_dest' = write_at(w_dest, pos, buf)
           /\ w_cursor' = IF w_kind = "Buffer" THEN pos + Len(buf) ELSE w_cursor
           /\ w_writers' = [w_writers EXCEPT
                    ![i].todo = Tail(@),
                    ![i].writer = [@ EXCEPT !.pos = pos + Len(buf),
                                            !.written = @ + Len(buf)]]
    /\ UNCHANGED << w_pc, w_kind, w_writer, w_last, w_count,
                    codec_vars, shard_vars, tag_vars, batch_vars, put_vars, pool_vars >>

WritersNext == \E i \in 1..2 : GetWriterAtFor(i) \/ WriteOf(i)

SpecWriters == WritersInit /\ [][WritersNext]_vars

(***************************************************************************)
(* HttpShardClient.                                                        *)
(***************************************************************************)
\* HttpShardClient::new: the cache directory is given or not
Init ==
    /\ cache_directory \in { "None", "Some" }
    /\ pc = "idle"
    /\ call = NoCall
    /\ sent = << >>
    /\ history = << >>
    /\ response = NoValue
    /\ reader = << >>
    /\ downloaded_shards = << >>
    /\ tasks = << >>
    /\ files = {}
    /\ result = NoValue
    /\ CodecOff
    /\ AuxOff

attempts == Len(sent)

in_flight == Len(sent) - Len(history)

\* dropping the JoinSet aborts its tasks: one that has not started never runs,
\* one that is running finishes
AbortAll(ts) ==
    [i \in 1..Len(ts) |->
        IF ts[i].state = "spawned" THEN [ts[i] EXCEPT !.state = "aborted"] ELSE ts[i]]

\* write_all_safe: the file appears under its name with the whole content
WriteFile(fs, name, data) ==
    { f \in fs : f.name # name } \cup { [name |-> name, data |-> data] }

\* a dedup probe that asks the server before it looks at its configuration
CallNoConfigGate(c) ==
    /\ pc = "idle"
    /\ call' = c
    /\ pc' = "send"
    /\ UNCHANGED << cache_directory, sent, history, response, reader,
                    downloaded_shards, tasks, files, result, codec_vars, aux_vars >>

\* the start of a call, up to its first request; get_dedup_shards gives up
\* at once without a cache directory
Call(c) ==
    /\ pc = "idle"
    /\ call' = c
    /\ IF c.op = "get_dedup_shards" /\ cache_directory = "None"
       THEN /\ result' = Err(ShardClientError("InvalidConfig", NoStatus))
            /\ pc' = "done"
       ELSE /\ pc' = "send"
            /\ UNCHANGED result
    /\ UNCHANGED << cache_directory, sent, history, response, reader,
                    downloaded_shards, tasks, files, codec_vars, aux_vars >>

\* a loop that does not wait for the answer before it asks again
SendWhileWaiting ==
    /\ pc \in { "send", "wait" }
    /\ Len(sent) < NUM_RETRIES
    /\ sent' = Append(sent, Request(call))
    /\ pc' = "wait"
    /\ UNCHANGED << cache_directory, call, history, response, reader,
                    downloaded_shards, tasks, files, result, codec_vars, aux_vars >>

\* the retry loop's closure: one request goes out
Send ==
    /\ pc = "send"
    /\ sent' = Append(sent, Request(call))
    /\ pc' = "wait"
    /\ UNCHANGED << cache_directory, call, history, response, reader,
                    downloaded_shards, tasks, files, result, codec_vars, aux_vars >>

\* the attempt ends and RetryStrategy::retry decides; an error it returns is
\* wrapped as Other("request failed with code ...")
AfterAttempt(status, body) ==
    LET r == send_result(status, body)
        d == retry_decision(NUM_RETRIES, attempts, r,
                            IF r.ok THEN FALSE ELSE is_status_retriable_and_print(r.err))
    IN  IF d = "retry"
        THEN /\ pc' = "send"
             /\ UNCHANGED << response, result >>
        ELSE IF r.ok
        THEN /\ response' = r.val
             /\ pc' = "body"
             /\ UNCHANGED result
        ELSE /\ result' = Err(ShardClientError("Other", r.err.status))
             /\ pc' = "done"
             /\ UNCHANGED response

Receive(statuses, bodies) ==
    /\ pc = "wait"
    /\ \E status \in statuses : \E body \in bodies[call.op] :
        /\ history' = Append(history, status)
        /\ AfterAttempt(status, body)
    /\ UNCHANGED << cache_directory, call, sent, reader, downloaded_shards,
                    tasks, files, codec_vars, aux_vars >>

\* a client that asks again when the body of a delivered response does not parse
ReadBodyRetryOnParseError ==
    /\ pc = "body"
    /\ CASE call.op = "upload_shard" ->
              LET p == parse_upload_shard_response(response)
              IN  /\ result' = IF p.ok THEN p ELSE result
                  /\ pc' = IF p.ok THEN "done" ELSE "send"
                  /\ UNCHANGED reader
         [] call.op = "get_file_reconstruction_info" ->
              LET p == parse_reconstruction_response(response)
              IN  /\ result' = IF p.ok THEN Ok(to_file_info(call.hash, p.val)) ELSE result
                  /\ pc' = IF p.ok THEN "done" ELSE "send"
                  /\ UNCHANGED reader
         [] call.op = "get_dedup_shards" ->
              /\ reader' = response
              /\ pc' = "parse"
              /\ UNCHANGED result
    /\ UNCHANGED << cache_directory, call, sent, history, response,
                    downloaded_shards, tasks, files, codec_vars, aux_vars >>

\* response.bytes() and, for the two JSON calls, the parse and the return
ReadBody ==
    /\ pc = "body"
    /\ CASE call.op = "upload_shard" ->
              LET p == parse_upload_shard_response(response)
              IN  /\ result' = IF p.ok THEN p
                               ELSE Err(ShardClientError(p.err, NoStatus))
                  /\ pc' = "done"
                  /\ UNCHANGED reader
         [] call.op = "get_file_reconstruction_info" ->
              LET p == parse_reconstruction_response(response)
              IN  /\ result' = IF p.ok THEN Ok(to_file_info(call.hash, p.val))
                               ELSE Err(ShardClientError(p.err, NoStatus))
                  /\ pc' = "done"
                  /\ UNCHANGED reader
         [] call.op = "get_dedup_shards" ->
              /\ reader' = response
              /\ pc' = "parse"
              /\ UNCHANGED result
    /\ UNCHANGED << cache_directory, call, sent, history, response,
                    downloaded_shards, tasks, files, codec_vars, aux_vars >>

\* a record loop that waits for the writes it has spawned before it returns
\* a parse error
ParseRecordAwaitsOnError ==
    /\ pc = "parse"
    /\ LET r == parse_record(reader)
       IN  CASE r.step = "break" ->
                  /\ pc' = "join"
                  /\ UNCHANGED << reader, downloaded_shards, tasks, result >>
             [] r.step = "error" ->
                  /\ \A i \in 1..Len(tasks) : tasks[i].state \in { "written", "failed" }
                  /\ result' = Err(ShardClientError(r.err, NoStatus))
                  /\ tasks' = [i \in 1..Len(tasks) |-> [tasks[i] EXCEPT !.joined = TRUE]]
                  /\ pc' = "done"
                  /\ UNCHANGED << reader, downloaded_shards >>
             [] r.step = "spawn" ->
                  /\ downloaded_shards' = Append(downloaded_shards, r.hash)
                  /\ tasks' = Append(tasks, [name |-> local_shard_name(r.hash),
                                             data |-> r.content,
                                             state |-> "spawned",
                                             joined |-> FALSE])
                  /\ reader' = r.rest
                  /\ UNCHANGED << pc, result >>
    /\ UNCHANGED << cache_directory, call, sent, history, response, files, codec_vars, aux_vars >>

\* one turn of the record loop of get_dedup_shards
ParseRecord ==
    /\ pc = "parse"
    /\ LET r == parse_record(reader)
       IN  CASE r.step = "break" ->
                  /\ pc' = "join"
                  /\ UNCHANGED << reader, downloaded_shards, tasks, result >>
             [] r.step = "error" ->
                  /\ result' = Err(ShardClientError(r.err, NoStatus))
                  /\ tasks' = AbortAll(tasks)
                  /\ pc' = "done"
                  /\ UNCHANGED << reader, downloaded_shards >>
             [] r.step = "spawn" ->
                  /\ downloaded_shards' = Append(downloaded_shards, r.hash)
                  /\ tasks' = Append(tasks, [name |-> local_shard_name(r.hash),
                                             data |-> r.content,
                                             state |-> "spawned",
                                             joined |-> FALSE])
                  /\ reader' = r.rest
                  /\ UNCHANGED << pc, result >>
    /\ UNCHANGED << cache_directory, call, sent, history, response, files, codec_vars, aux_vars >>

\* a worker picks a spawned write task up
TaskStart ==
    /\ \E i \in 1..Len(tasks) :
        /\ tasks[i].state = "spawned"
        /\ tasks' = [tasks EXCEPT ![i].state = "running"]
    /\ UNCHANGED << cache_directory, pc, call, sent, history, response, reader,
                    downloaded_shards, files, result, codec_vars, aux_vars >>

\* write_all_safe succeeds
TaskWrite ==
    /\ \E i \in 1..Len(tasks) :
        /\ tasks[i].state = "running"
        /\ files' = WriteFile(files, tasks[i].name, tasks[i].data)
        /\ tasks' = [tasks EXCEPT ![i].state = "written"]
    /\ UNCHANGED << cache_directory, pc, call, sent, history, response, reader,
                    downloaded_shards, result, codec_vars, aux_vars >>

\* write_all_safe fails with a disk error
TaskFail ==
    /\ \E i \in 1..Len(tasks) :
        /\ tasks[i].state = "running"
        /\ tasks' = [tasks EXCEPT ![i].state = "failed"]
    /\ UNCHANGED << cache_directory, pc, call, sent, history, response, reader,
                    downloaded_shards, files, result, codec_vars, aux_vars >>

Unjoined(ts) == { i \in 1..Len(ts) : ~ts[i].joined }

\* a join loop that looks at one task only
JoinStepFirstOnly(ts, i) ==
    IF ts[i].state = "written"
    THEN [tasks |-> [ts EXCEPT ![i].joined = TRUE], done |-> TRUE,
          result |-> Ok(downloaded_shards)]
    ELSE [tasks |-> AbortAll([ts EXCEPT ![i].joined = TRUE]), done |-> TRUE,
          result |-> Err(ShardClientError("IOError", NoStatus))]

\* join_next has handed over finished task i: go on, or return its error
JoinStep(ts, i) ==
    IF ts[i].state = "written"
    THEN [tasks |-> [ts EXCEPT ![i].joined = TRUE], done |-> FALSE,
          result |-> NoValue]
    ELSE [tasks |-> AbortAll([ts EXCEPT ![i].joined = TRUE]), done |-> TRUE,
          result |-> Err(ShardClientError("IOError", NoStatus))]

\* while let Some(res) = write_join_set.join_next().await { res??; }
JoinNext ==
    /\ pc = "join"
    /\ \E i \in Unjoined(tasks) :
        /\ tasks[i].state \in { "written", "failed" }
        /\ LET j == JoinStep(tasks, i)
           IN  /\ tasks' = j.tasks
               /\ IF j.done
                  THEN pc' = "done" /\ result' = j.result
                  ELSE UNCHANGED << pc, result >>
    /\ UNCHANGED << cache_directory, call, sent, history, response, reader,
                    downloaded_shards, files, codec_vars, aux_vars >>

\* join_next returns None: Ok(downloaded_shards)
JoinDone ==
    /\ pc = "join"
    /\ Unjoined(tasks) = {}
    /\ result' = Ok(downloaded_shards)
    /\ pc' = "done"
    /\ UNCHANGED << cache_directory, call, sent, history, response, reader,
                    downloaded_shards, tasks, files, codec_vars, aux_vars >>

\* the call has returned and its tasks have ended; the client and the cache
\* directory stay for the next call
Return ==
    /\ pc = "done"
    /\ \A i \in 1..Len(tasks) : tasks[i].state # "running"
    /\ pc' = "idle"
    /\ call' = NoCall
    /\ sent' = << >>
    /\ history' = << >>
    /\ response' = NoValue
    /\ reader' = << >>
    /\ downloaded_shards' = << >>
    /\ tasks' = << >>
    /\ result' = NoValue
    /\ UNCHANGED << cache_directory, files, codec_vars, aux_vars >>

\* every step of the client but the server's answer
ClientStep ==
    \/ \E c \in Calls : Call(c)
    \/ Send
    \/ ReadBody
    \/ ParseRecord
    \/ TaskStart
    \/ TaskWrite
    \/ TaskFail
    \/ JoinNext
    \/ JoinDone
    \/ Return

\* the server answers with any status and a sample body
Next == ClientStep \/ Receive(Statuses, SampleBodies)

Spec == Init /\ [][Next]_vars

\* the server answers with few statuses and any body
NextBodies == ClientStep \/ Receive(FewStatuses, AnyBodies)

SpecBodies == Init /\ [][NextBodies]_vars

(***************************************************************************)
(* C1: for every scheme and every payload, the empty one included,          *)
(* decompressing what compress_from_slice returned succeeds and gives the  *)
(* payload back.                                                           *)
(***************************************************************************)
C1_RoundTrip ==
    /\ c_pc \in { "compressed", "done" } => c_compressed.ok
    /\ c_pc = "done" => c_output.ok /\ c_output.val = c_input

\* a two-plane payload with an odd tail went through both directions
C1_Witness ==
    /\ c_pc = "done"
    /\ c_scheme = "ByteGrouping2LZ4"
    /\ Len(c_input) = 5
    /\ c_input[1] # c_input[2]
    /\ c_compressed.val # c_input

(***************************************************************************)
(* What the claims below expect, written out on its own.                   *)
(***************************************************************************)
\* a failure the retry policy is to retry: no status, 429, or 5xx
ExpectedRetriable(status) ==
    status = 0 \/ status = 429 \/ (status >= 500 /\ status <= 599)

IsSuccess(status) == status >= 200 /\ status <= 299

\* the call failed in the transport: Other("request failed with code ...")
TransportError(r) == ~r.ok /\ r.err.kind = "Other"

\* the retry loop has handed a response over
RetryReturnedOk == pc \in { "body", "parse", "join", "done" } /\ ~(pc = "done" /\ TransportError(result))

C3_NotFoundIsTerminal ==
    (history # << >> /\ history[1] = 404) =>
        /\ Len(sent) = 1
        /\ Len(history) = 1
        /\ pc = "done"
        /\ ~result.ok

C3_Witness ==
    /\ pc = "done"
    /\ call.op = "get_file_reconstruction_info"
    /\ history = << 404 >>
    /\ TransportError(result)

(***************************************************************************)
(* C4: while fewer than NUM_RETRIES attempts have been made and all of     *)
(* them failed with a retriable condition, the call goes on and surfaces   *)
(* no error; when the NUM_RETRIES-th attempt then succeeds, the retry loop *)
(* returns its response, and the call's result is the one that response    *)
(* gives, never a transport error.                                         *)
(***************************************************************************)
C4_SuccessOnLastAttempt ==
    /\ (/\ Len(history) > 0
        /\ Len(history) < NUM_RETRIES
        /\ \A i \in 1..Len(history) : ExpectedRetriable(history[i]))
       => pc \in { "send", "wait" }
    /\ (Len(history) = NUM_RETRIES /\ IsSuccess(history[NUM_RETRIES])) =>
        /\ RetryReturnedOk
        /\ response \in SampleBodies[call.op]
        /\ (pc = "done" /\ call.op = "upload_shard" /\ response.text_ok) =>
                /\ result.ok
                /\ result.val.result = "SyncPerformed"
        /\ (/\ pc = "done"
            /\ call.op = "get_file_reconstruction_info"
            /\ response.text_ok
            /\ response.reconstruction[1].hash # << 122, 122 >>) =>
                /\ result.ok
                /\ result.val.metadata.num_entries = 1
        /\ (pc = "done" /\ call.op = "get_dedup_shards" /\ result.ok) =>
                result.val \in { << >>, << 170, 187 >> }

\* four retriable failures of every kind, then a success whose two shards
\* were returned
C4_Witness ==
    /\ pc = "done"
    /\ call.op = "get_dedup_shards"
    /\ history = << 0, 429, 500, 503, 200 >>
    /\ result.ok
    /\ result.val = << 170, 187 >>

(***************************************************************************)
(* C5: a failed attempt that leaves attempts in the budget is followed by  *)
(* another attempt if and only if it was a network failure (no status), a  *)
(* 5xx or a 429; after any other status the call has ended at that attempt.*)
(***************************************************************************)
C5_RetriableIff ==
    \A i \in 1..Len(history) :
        (~IsSuccess(history[i]) /\ i < NUM_RETRIES) =>
            /\ ExpectedRetriable(history[i]) =>
                    (Len(sent) > i \/ (Len(sent) = i /\ pc = "send"))
            /\ ~ExpectedRetriable(history[i]) =>
                    (Len(sent) = i /\ pc = "done" /\ TransportError(result))

\* a network failure, a 429 and a 503 were retried, the 400 was not
C5_Witness ==
    /\ pc = "done"
    /\ history = << 0, 429, 503, 400 >>
    /\ Len(sent) = 4

(***************************************************************************)
(* C6: get_dedup_shards has returned its hashes only when every write task *)
(* spawned for the response has finished its write and has been joined:    *)
(* no write is pending, running or aborted then.                           *)
(***************************************************************************)
C6_JoinedBeforeOk ==
    (pc = "done" /\ call.op = "get_dedup_shards" /\ result.ok) =>
        /\ Len(tasks) = Len(result.val)
        /\ \A i \in 1..Len(tasks) : tasks[i].state = "written" /\ tasks[i].joined

\* a probe with two write tasks has returned its two hashes
C6_Witness ==
    /\ pc = "done"
    /\ call.op = "get_dedup_shards"
    /\ result.ok
    /\ Len(tasks) = 2
    /\ tasks[1].name # tasks[2].name

(***************************************************************************)
(* C7: for a body of k complete records and no failing disk write,         *)
(* get_dedup_shards returns the hash of every record, in order, and the    *)
(* cache directory holds for each record the file "{hex(hash)}.mdb" with   *)
(* that record's content: "aa.mdb" with "X", "bb.mdb" with "YZ".           *)
(***************************************************************************)
ExpectedFile(h) ==
    IF h = 170 THEN [name |-> << 97, 97, 46, 109, 100, 98 >>, data |-> << 88 >>]
    ELSE [name |-> << 98, 98, 46, 109, 100, 98 >>, data |-> << 89, 90 >>]

C7_RecordsToFiles ==
    \A hs \in HashSeqs(MaxRecords) :
        (/\ pc = "done"
         /\ call.op = "get_dedup_shards"
         /\ Len(history) > 0
         /\ IsSuccess(history[Len(history)])
         /\ response = EncodeRecords(hs)
         /\ \A i \in 1..Len(tasks) : tasks[i].state # "failed") =>
            /\ result.ok
            /\ result.val = hs
            /\ \A i \in 1..Len(hs) : ExpectedFile(hs[i]) \in files

\* the two records X and YZ gave two hashes and two files
C7_Witness ==
    /\ pc = "done"
    /\ call.op = "get_dedup_shards"
    /\ result.ok
    /\ result.val = << 170, 187 >>
    /\ response = EncodeRecords(<< 170, 187 >>)
    /\ Cardinality(files) = 2

(***************************************************************************)
(* C8: on a client built without a cache directory, get_dedup_shards       *)
(* issues no request at any point of the call and returns InvalidConfig.   *)
(***************************************************************************)
C8_ConfigGate ==
    (cache_directory = "None" /\ call.op = "get_dedup_shards") =>
        /\ sent = << >>
        /\ history = << >>
        /\ pc = "done"
        /\ ~result.ok
        /\ result.err.kind = "InvalidConfig"

C8_Witness ==
    /\ cache_directory = "None"
    /\ call.op = "get_dedup_shards"
    /\ pc = "done"
    /\ result.err.kind = "InvalidConfig"

(***************************************************************************)
(* C9: when a write task of a probe has failed with a disk error and the   *)
(* probe returns that failure, every write task spawned for the response   *)
(* has run to its end and has been awaited: none was aborted, none is      *)
(* still pending or running, none is left unjoined.                        *)
(***************************************************************************)
C9_SiblingsAwaited ==
    (/\ pc = "done"
     /\ call.op = "get_dedup_shards"
     /\ \E i \in 1..Len(tasks) : tasks[i].state = "failed" /\ tasks[i].joined) =>
        \A i \in 1..Len(tasks) :
            tasks[i].joined /\ tasks[i].state \in { "written", "failed" }

(***************************************************************************)
(* C10, as amended: get_file_reconstruction_info turns a reconstruction    *)
(* response into a manifest whose header counts the terms, whose segments  *)
(* are as many, and whose i-th segment has the i-th term's hash,           *)
(* unpacked_length and range start and end; the manifest has a header and  *)
(* segments only, the response's offset_into_first_range is not in it.     *)
(***************************************************************************)
TermsPreserved ==
    /\ result.val.metadata.num_entries = Len(response.reconstruction)
    /\ Len(result.val.segments) = Len(response.reconstruction)
    /\ \A i \in 1..Len(response.reconstruction) :
        LET term == response.reconstruction[i]
            seg == result.val.segments[i]
        IN  /\ hex(seg.cas_hash) = term.hash
            /\ seg.unpacked_segment_bytes = term.unpacked_length
            /\ seg.chunk_index_start = term.range.start
            /\ seg.chunk_index_end = term.range.end

ManifestReturned ==
    pc = "done" /\ call.op = "get_file_reconstruction_info" /\ result.ok

C10_ManifestPreservesTerms ==
    ManifestReturned =>
        /\ TermsPreserved
        /\ DOMAIN result.val = { "metadata", "segments" }
        /\ DOMAIN result.val.metadata = { "file_hash", "num_entries" }
        /\ result.val.metadata.file_hash = call.hash

\* two different terms and an offset of 10 were translated
C10_Witness ==
    /\ ManifestReturned
    /\ response.offset_into_first_range = 10
    /\ Len(result.val.segments) = 2
    /\ result.val.segments[1] # result.val.segments[2]

(***************************************************************************)
(* C10, as first stated: the manifest also carries the response's          *)
(* offset_into_first_range, unchanged.                                     *)
(***************************************************************************)
C10_ManifestPreservesOffset ==
    ManifestReturned =>
        /\ TermsPreserved
        /\ \E f \in DOMAIN result.val \cup DOMAIN result.val.metadata :
            /\ f = "offset_into_first_range"
            /\ \/ /\ f \in DOMAIN result.val
                  /\ result.val[f] = response.offset_into_first_range
               \/ /\ f \in DOMAIN result.val.metadata
                  /\ result.val.metadata[f] = response.offset_into_first_range

(***************************************************************************)
(* C11: for n = 2 and n = 4 and every payload, of a length divisible by n  *)
(* or not, the n-way byte-plane split keeps the length and leaves the      *)
(* bytes of the incomplete last record where they were, and regrouping the *)
(* split gives the payload back.                                           *)
(***************************************************************************)
C11_RegroupInvertsSplit ==
    \A n \in { 2, 4 } :
        LET g == bg_split(c_input, n)
            k == Len(c_input) \div n
        IN  /\ Len(g) = Len(c_input)
            /\ \A j \in (k * n + 1)..Len(c_input) : g[j] = c_input[j]
            /\ bg_regroup(g, n) = c_input

\* a payload of two records of four bytes and a tail, which the split has
\* permuted, went through the four-plane scheme and came back
C11_Witness ==
    /\ c_pc = "done"
    /\ c_scheme = "ByteGrouping4LZ4"
    /\ Len(c_input) % 4 # 0
    /\ Len(c_input) >= 9
    /\ bg4_split(c_input) # c_input
    /\ lz4_frame_decode(c_compressed.val) = Ok(bg4_split(c_input))
    /\ c_output = Ok(c_input)

BadKeyRecords ==
    { EncodeRecord(<< 110, 115, 97, 97 >>, ShardBytes(170)),
      EncodeRecord(<< 110, 115, 47, 122, 122 >>, ShardBytes(170)),
      EncodeRecord(<< 110, 255, 47, 97, 97 >>, ShardBytes(170)) }

Delivered == Len(history) > 0 /\ IsSuccess(history[Len(history)])

Unparseable ==
    CASE call.op = "upload_shard" -> ~response.text_ok \/ response.result \notin { 0, 1 }
      [] call.op = "get_file_reconstruction_info" ->
            \/ ~response.text_ok
            \/ \E i \in 1..Len(response.reconstruction) :
                    response.reconstruction[i].hash \notin { hex(h) : h \in Bytes }
      [] call.op = "get_dedup_shards" ->
            \E hs \in HashSeqs(MaxRecords), t \in BadKeyRecords :
                response = EncodeRecords(hs) \o t
      [] OTHER -> FALSE

C14_UnparseableIsTerminal ==
    /\ \A i \in 1..(Len(history) - 1) : ~IsSuccess(history[i])
    /\ Delivered => Len(sent) = Len(history) /\ pc \in { "body", "parse", "join", "done" }
    /\ (pc = "done" /\ Delivered /\ Unparseable) =>
            /\ ~result.ok
            /\ result.err.kind =
                    IF call.op = "get_dedup_shards" THEN "InvalidShardKey" ELSE "JSON"

\* after a 500 the second attempt delivered a body with a key that is not
\* UTF-8, three attempts were left, and the probe ended with InvalidShardKey
C14_Witness ==
    /\ pc = "done"
    /\ call.op = "get_dedup_shards"
    /\ history = << 500, 200 >>
    /\ Len(sent) = 2
    /\ Unparseable
    /\ Len(tasks) > 0
    /\ ~result.ok
    /\ result.err.kind = "InvalidShardKey"

(***************************************************************************)
(* C15: get_dedup_shards never writes a cache file that exists: no write   *)
(* task, of this call or a later one, of this record or a later one with   *)
(* the same shard hash, completes a write under a name the cache directory *)
(* already holds.                                                          *)
(***************************************************************************)
C15_NeverRewrites ==
    [][\A i \in 1..Len(tasks) :
          (/\ i <= Len(tasks')
           /\ tasks[i].state = "running"
           /\ tasks'[i].state = "written") =>
              tasks[i].name \notin { f.name : f \in files }]_vars

(***************************************************************************)
(* C16: when get_file succeeds for every entry of the map, batch_get_file  *)
(* has called get_file exactly once for each entry and for nothing else,   *)
(* and returns the sum of the byte counts those calls returned; for the    *)
(* empty map it returns 0.                                                 *)
(***************************************************************************)
RECURSIVE SumOfCounts(_, _)
SumOfCounts(m, S) ==
    IF S = {} THEN 0
    ELSE LET h == CHOOSE x \in S : TRUE
         IN  m[h].val + SumOfCounts(m, S \ { h })

CallsOf(h) == { i \in 1..Len(b_calls) : b_calls[i] = h }

C16_BatchTotal ==
    (b_pc = "done" /\ \A h \in DOMAIN b_files : b_files[h].ok) =>
        /\ b_result = Ok(SumOfCounts(b_files, DOMAIN b_files))
        /\ Len(b_calls) = Cardinality(DOMAIN b_files)
        /\ \A h \in DOMAIN b_files : Cardinality(CallsOf(h)) = 1
        /\ DOMAIN b_files = {} => b_result = Ok(0)

\* three files of 5, 7 and 5 bytes gave 17
C16_Witness ==
    /\ b_pc = "done"
    /\ Cardinality(DOMAIN b_files) = 3
    /\ \A h \in DOMAIN b_files : b_files[h].ok
    /\ { b_files[h].val : h \in DOMAIN b_files } = { 5, 7 }
    /\ b_result = Ok(17)

(***************************************************************************)
(* C17: a put whose data is empty, whose boundaries are empty, or whose    *)
(* last boundary is not the length of data makes no network call at any    *)
(* point and returns the caller error InvalidArguments.                    *)
(***************************************************************************)
BadPutArguments ==
    \/ Len(p_data) = 0
    \/ Len(p_boundaries) = 0
    \/ p_boundaries[Len(p_boundaries)] # Len(p_data)

C17_PutRejectsBadArguments ==
    (p_pc # "off" /\ BadPutArguments) =>
        /\ p_requests = 0
        /\ p_pc \in { "start", "done" }
        /\ p_pc = "done" => p_result = Err("InvalidArguments")

\* the boundaries [3, 7] over 10 bytes of data were rejected
C17_Witness ==
    /\ p_pc = "done"
    /\ Len(p_data) = 10
    /\ p_boundaries = << 3, 7 >>
    /\ p_requests = 0
    /\ p_result = Err("InvalidArguments")

(***************************************************************************)
(* C18: for the file-backed and the memory-backed provider and every       *)
(* offset, the bytes a writer from get_writer_at(offset) is given are in   *)
(* the destination from position offset on, one write after the other:    *)
(* the last write lies at offset plus what the writer wrote before.        *)
(***************************************************************************)
C18_WriterStartsAtOffset ==
    w_pc = "written" =>
        /\ Len(w_dest) >= w_last.at + Len(w_last.bytes)
        /\ SubSeq(w_dest, w_last.at + 1, w_last.at + Len(w_last.bytes)) = w_last.bytes

(***************************************************************************)
(* C19: every request upload_shard sends, the first and each retry, is a   *)
(* PUT when force_sync is true and a POST when it is false, goes to        *)
(* {endpoint}/shard/{prefix}/{hex(hash)}, "shard/ns/aa" for the prefix     *)
(* "ns" and the hash 0xaa, and has the raw shard bytes as its body.        *)
(***************************************************************************)
C19_UploadRequest ==
    call.op = "upload_shard" =>
        \A i \in 1..Len(sent) :
            /\ sent[i].method = (IF call.force_sync THEN "PUT" ELSE "POST")
            /\ sent[i].route = "shard"
            /\ sent[i].path = << 110, 115, 47, 97, 97 >>
            /\ sent[i].body = call.shard_data
            /\ sent[i] = sent[1]

\* a forced upload was retried twice: three PUTs with the shard bytes
C19_Witness ==
    /\ call.op = "upload_shard"
    /\ call.force_sync
    /\ Len(sent) = 3
    /\ Len(history) = 2
    /\ sent[3].method = "PUT"
    /\ sent[3].body = << 88 >>

(***************************************************************************)
(* C20: when the chunk endpoint answers with success and a body of no      *)
(* record, get_dedup_shards returns Ok with no hash, not an error; no      *)
(* write task is spawned at any point of the call, so no cache file is     *)
(* created.                                                                *)
(***************************************************************************)
C20_NoRecordsIsNotFound ==
    (call.op = "get_dedup_shards" /\ Delivered /\ response = << >>) =>
        /\ tasks = << >>
        /\ downloaded_shards = << >>
        /\ pc = "done" => result = Ok(<< >>)

\* after a 503, an empty body came with a 200 and the probe returned no hash
C20_Witness ==
    /\ pc = "done"
    /\ call.op = "get_dedup_shards"
    /\ history = << 503, 200 >>
    /\ response = << >>
    /\ result = Ok(<< >>)
    /\ files = {}

(***************************************************************************)
(* C21: external_executor_count is the number of calls of                  *)
(* external_run_async_task that have started and not returned; it does not *)
(* wrap below zero, and it is 0 once every call has returned, whether with *)
(* an output, a TaskPanic or a TaskCanceled.                               *)
(***************************************************************************)
CallsInProgress == { c \in Callers : tp_callers[c].pc \in { "counted", "blocking", "joined" } }

C21_ExecutorCount ==
    /\ external_executor_count = Cardinality(CallsInProgress)
    /\ external_executor_count <= MaxCallers
    /\ CallsInProgress = {} => external_executor_count = 0

\* two calls have returned, one cancelled by the shutdown, and the count is 0
C21_Witness ==
    /\ runtime = "None"
    /\ \A c \in Callers : tp_callers[c].pc = "returned"
    /\ \E c \in Callers : tp_callers[c].ret = "TaskCanceled"
    /\ \E c \in Callers : tp_callers[c].ret = "Output"
    /\ external_executor_count = 0

(***************************************************************************)
(* C22, as amended: after perform_sigint_shutdown no task waits to be      *)
(* polled: a task that had yielded at an .await, or had not started, is    *)
(* dropped, a task in the middle of a poll is dropped when it next yields, *)
(* and no task starts or resumes, a task spawned afterwards included.  A   *)
(* call of external_run_async_task in progress goes on to return: with     *)
(* Err(TaskCanceled) when its task was dropped, and with the task's own    *)
(* outcome, the output or a TaskPanic, when the task was in the middle of  *)
(* a poll and ended in that poll.                                          *)
(***************************************************************************)
NoTaskWaits ==
    runtime = "None" =>
        \A t \in Callers \cup Spawned : tp_tasks[t].state \notin { "queued", "yielded" }

NoTaskStarts ==
    runtime = "None" =>
        \A t \in Callers \cup Spawned :
            tp_tasks'[t].state = "running" => tp_tasks[t].state = "running"

DroppedIsCanceled ==
    \A c \in Callers :
        tp_callers[c].pc \in { "joined", "returned" } =>
            /\ tp_callers[c].at_shutdown \in { "queued", "yielded" } =>
                    tp_callers[c].ret = "TaskCanceled"
            /\ tp_callers[c].at_shutdown = "running" =>
                    tp_callers[c].ret \in { "TaskCanceled", "Output", "TaskPanic" }
            /\ tp_callers[c].ret = "TaskCanceled" <=> tp_tasks[c].state = "cancelled"
            /\ tp_callers[c].ret = "Output" <=> tp_tasks[c].state = "finished"
            /\ tp_callers[c].ret = "TaskPanic" <=> tp_tasks[c].state = "panicked"

C23_NoneIsIdentity ==
    c_scheme = "None" =>
        /\ c_pc \in { "compressed", "done", "copied" } => c_compressed = Ok(c_input)
        /\ c_pc \in { "done", "copied" } => c_output = Ok(c_compressed.val)
        /\ c_pc = "copied" =>
            /\ c_copied = Ok(Len(c_compressed.val))
            /\ c_writer.now = c_writer.before \o c_compressed.val

\* a full-length payload of both byte values went through all three unchanged,
\* the last into a writer that held a byte already
C23_Witness ==
    /\ c_pc = "copied"
    /\ c_scheme = "None"
    /\ Len(c_input) = MaxLen
    /\ \E i, j \in 1..Len(c_input) : c_input[i] # c_input[j]
    /\ c_output = Ok(c_input)
    /\ c_writer = [before |-> << 7 >>, now |-> << 7 >> \o c_input]
    /\ c_copied = Ok(MaxLen)

(***************************************************************************)
(* C24: in get_dedup_shards a key-length prefix that cannot be read ends   *)
(* the record loop as the end of the records, when the body ends at a      *)
(* record boundary and when 1 to 3 bytes are left over: every record       *)
(* before it has its write task, the loop reports no error, and the call   *)
(* returns Ok with the hashes of those records (the error of a cache write *)
(* that failed is the only other outcome).                                 *)
(***************************************************************************)
ShortTails == { << >>, << 5 >>, << 5, 0 >>, << 5, 0, 0 >> }

AWriteFailed == \E i \in 1..Len(tasks) : tasks[i].state = "failed" /\ tasks[i].joined

\* the bodies of complete records followed by at most three bytes
ShortTailBodies ==
    { [hs |-> hs, tail |-> t, body |-> EncodeRecords(hs) \o t] :
        hs \in HashSeqs(MaxRecords), t \in ShortTails }

C24_ShortPrefixEndsRecords ==
    (call.op = "get_dedup_shards" /\ Delivered) =>
        \A b \in ShortTailBodies :
            response = b.body =>
                /\ pc = "parse" /\ reader = b.tail => parse_record(reader).step = "break"
                /\ pc = "join" => downloaded_shards = b.hs /\ Len(tasks) = Len(b.hs)
                /\ pc = "done" => IF AWriteFailed THEN ~result.ok ELSE result = Ok(b.hs)

\* one record and three bytes of a next one: the record is in the cache and
\* the call returned its hash
C24_Witness ==
    /\ pc = "done"
    /\ call.op = "get_dedup_shards"
    /\ Delivered
    /\ response = EncodeRecords(<< 170 >>) \o << 5, 0, 0 >>
    /\ result = Ok(<< 170 >>)
    /\ ExpectedFile(170) \in files

(***************************************************************************)
(* C25: within one call of upload_shard, get_file_reconstruction_info or   *)
(* get_dedup_shards the attempts never overlap: at most one attempt is in  *)
(* flight in any state, and an attempt after the first has been issued     *)
(* only when the one before it had ended with a retriable failure.         *)
(***************************************************************************)
C25_AttemptsInSequence ==
    /\ in_flight \in { 0, 1 }
    /\ in_flight = 1 <=> pc = "wait"
    /\ \A k \in 1..(Len(sent) - 1) :
        /\ k <= Len(history)
        /\ ExpectedRetriable(history[k])
        /\ sent[k + 1] = sent[k]

\* the fourth attempt of a call is in flight after a network failure, a 429
\* and a 503
C25_Witness ==
    /\ pc = "wait"
    /\ call.op = "upload_shard"
    /\ history = << 0, 429, 503 >>
    /\ Len(sent) = 4
    /\ in_flight = 1

(***************************************************************************)
(* C26: the default batch_get_file takes its files one at a time: at most  *)
(* one get_file of the batch is in flight in any state, and the get_file   *)
(* for the next file is called only after every earlier one has returned.  *)
(***************************************************************************)
C26_OneFileAtATime ==
    /\ Cardinality(b_in_flight) <= 1
    /\ b_in_flight # {} <=> b_pc = "await"
    /\ \A i \in 1..Len(b_calls) :
        b_calls[i] \in b_in_flight => i = Len(b_calls)
    /\ \A i \in 1..(Len(b_calls) - 1) : b_calls[i] \in b_written

\* the third get_file of a batch of three is in flight, the first two have
\* returned 12 bytes between them
C26_Witness ==
    /\ b_pc = "await"
    /\ Len(b_calls) = 3
    /\ b_in_flight = { b_calls[3] }
    /\ b_written = { b_calls[1], b_calls[2] }
    /\ n_bytes = 12

(***************************************************************************)
(* C27: in the default batch_get_file the first get_file that fails ends   *)
(* the batch: its error is what the batch returns, get_file is never       *)
(* called for a file not yet processed, no byte total is returned, and the *)
(* files processed before the failure stay written.                        *)
(***************************************************************************)
FailedCalls == { i \in 1..Len(b_calls) : ~b_files[b_calls[i]].ok /\ b_calls[i] \notin b_in_flight }

C27_FirstFailureEndsBatch ==
    /\ FailedCalls # {} =>
        /\ FailedCalls = { Len(b_calls) }
        /\ b_pc = "done"
        /\ b_result = b_files[b_calls[Len(b_calls)]]
        /\ ~b_result.ok
        /\ b_in_flight = {}
        /\ b_written = { b_calls[i] : i \in 1..(Len(b_calls) - 1) }
        /\ b_todo = DOMAIN b_files \ { b_calls[i] : i \in 1..Len(b_calls) }
    /\ (b_pc = "done" /\ FailedCalls = {}) =>
        /\ b_result.ok
        /\ \A h \in DOMAIN b_files : b_files[h].ok

\* the second of three files failed: the first stays written, the third was
\* never asked for
C27_Witness ==
    /\ b_pc = "done"
    /\ Cardinality(DOMAIN b_files) = 3
    /\ Len(b_calls) = 2
    /\ ~b_result.ok
    /\ b_files[b_calls[1]] = Ok(7)
    /\ b_written = { b_calls[1] }
    /\ Cardinality(b_todo) = 1
    /\ \A h \in b_todo : b_files[h].ok

(***************************************************************************)
(* C28: two writers obtained from one WriteProvider for disjoint ranges,   *)
(* their writes interleaved in any order: once both have written all they  *)
(* had, the destination holds in each range exactly the bytes of that      *)
(* range's writer, for the file-backed and the memory-backed provider.     *)
(***************************************************************************)
WritersDone ==
    /\ w_pc = "pair"
    /\ \A i \in 1..2 : w_writers[i].open /\ w_writers[i].todo = << >>

RangeHolds(i) ==
    /\ Len(w_dest) >= w_writers[i].start + Len(w_writers[i].data)
    /\ SubSeq(w_dest, w_writers[i].start + 1, w_writers[i].start + Len(w_writers[i].data))
            = w_writers[i].data

C28_DisjointWritersKeepRanges == WritersDone => RangeHolds(1) /\ RangeHolds(2)

\* the file-backed provider alone does keep the ranges apart
FileWritersKeepRanges ==
    (WritersDone /\ w_kind = "File") => RangeHolds(1) /\ RangeHolds(2)

(***************************************************************************)
(* C29: when get_dedup_shards fails in parsing record k > 1 (a bad key, or *)
(* a body cut off inside the key bytes, the content-length prefix or the   *)
(* content bytes), it returns the error without joining any of the write   *)
(* tasks spawned for records 1..k-1: the join loop is never entered, no    *)
(* task is joined, each task is by then written, failed, in the middle of  *)
(* its write, or aborted before it started, and an aborted task never      *)
(* writes.                                                                 *)
(***************************************************************************)
ErrorTails == BodyTails \ ShortTails

\* the bodies of one or more complete records followed by a record that
\* does not parse
LaterErrorBodies ==
    { [hs |-> hs, body |-> EncodeRecords(hs) \o t] :
        hs \in HashSeqs(MaxRecords) \ { << >> }, t \in ErrorTails }

FailsAtLaterRecord ==
    /\ call.op = "get_dedup_shards"
    /\ Delivered
    /\ \E b \in LaterErrorBodies : response = b.body

ReturnedParseError ==
    (call.op = "get_dedup_shards" /\ Delivered) =>
        \A b \in LaterErrorBodies :
            response = b.body =>
                /\ pc # "join"
                /\ pc = "parse" /\ Len(tasks) = Len(b.hs) =>
                        parse_record(reader).step = "error"
                /\ pc = "done" =>
                    /\ ~result.ok
                    /\ result.err.kind \in { "IOError", "InvalidShardKey" }
                    /\ Len(tasks) = Len(b.hs)
                    /\ \A i \in 1..Len(tasks) :
                        /\ ~tasks[i].joined
                        /\ tasks[i].state \in { "aborted", "running", "written", "failed" }

AbortedNeverWrites ==
    \A i \in 1..Len(tasks) :
        tasks[i].state = "aborted" =>
            \/ tasks' = << >>
            \/ tasks'[i] = tasks[i] /\ (files' = files \/ \E j \in 1..Len(tasks) : j # i /\ tasks[j].state = "running")

C29_ParseErrorAbandonsWrites == []ReturnedParseError /\ [][AbortedNeverWrites]_vars

\* the third record had a bad key: the call has returned the error, the first
\* record's file is written and the second's write never started
C29_Witness ==
    /\ pc = "done"
    /\ FailsAtLaterRecord
    /\ ~result.ok
    /\ result.err.kind = "InvalidShardKey"
    /\ Len(tasks) = 2
    /\ tasks[1].state = "written"
    /\ tasks[2].state = "aborted"
    /\ tasks[1].name # tasks[2].name
    /\ files = { [name |-> tasks[1].name, data |-> tasks[1].data] }

(***************************************************************************)
(* C30: every write task get_dedup_shards spawns is for a record whose     *)
(* key, content length and content bytes were all read: the i-th task is   *)
(* for the i-th complete record of the body, its target is                 *)
(* "{hex(hash)}.mdb" under the cache directory for the hash in that        *)
(* record's key and its payload that record's content, there are never     *)
(* more tasks than complete records, and the cache directory holds no      *)
(* other file.                                                             *)
(***************************************************************************)
\* every body the server may send, with its complete records
RecordBodies ==
    { [hs |-> hs, body |-> EncodeRecords(hs) \o t] :
        hs \in HashSeqs(MaxRecords), t \in BodyTails }

C30_WritesOnlyCompleteRecords ==
    /\ files \subseteq { ExpectedFile(h) : h \in ShardHashes }
    /\ cache_directory = "None" => tasks = << >> /\ files = {}
    /\ (call.op = "get_dedup_shards" /\ Delivered) =>
        \A b \in RecordBodies :
            response = b.body =>
                /\ Len(tasks) <= Len(b.hs)
                /\ \A i \in 1..Len(tasks) :
                    /\ tasks[i].name = ExpectedFile(b.hs[i]).name
                    /\ tasks[i].data = ExpectedFile(b.hs[i]).data

\* the second record's content was cut off by one byte: the call failed, and
\* the one write task there is wrote the first record's file
C30_Witness ==
    /\ pc = "done"
    /\ call.op = "get_dedup_shards"
    /\ Delivered
    /\ response = ShardRecord(170) \o Take(ShardRecord(187), Len(ShardRecord(187)) - 1)
    /\ ~result.ok
    /\ Len(tasks) = 1
    /\ tasks[1].state = "written"
    /\ files = { ExpectedFile(170) }

(***************************************************************************)
(* C31: in_sigint_shutdown returns false in every state before the first   *)
(* perform_sigint_shutdown has stored the flag and true in every state     *)
(* from that store on; no step brings the flag back to false.              *)
(***************************************************************************)
FlagStored == \E s \in ShutdownThreads : sd_threads[s].pc # "idle"

FlagStays == sigint_shutdown => sigint_shutdown'

C31_FlagFollowsShutdown == [](in_sigint_shutdown <=> FlagStored) /\ [][FlagStays]_vars

\* one call has shut the pool down and returned, a later one has just stored
\* the flag again, a third has not begun: the flag reads true
C31_Witness ==
    /\ in_sigint_shutdown
    /\ runtime_dropped = 1
    /\ \E s, r, q \in ShutdownThreads :
        /\ sd_threads[s].pc = "returned"
        /\ sd_threads[r].pc = "stored"
        /\ sd_threads[q].pc = "idle"

(***************************************************************************)
(* C32: in every reachable state, whatever the interleaving of the calls,  *)
(* an empty runtime slot means the sigint_shutdown flag is true: the flag  *)
(* is set before the runtime is taken, and so before it is dropped.        *)
(***************************************************************************)
C32_FlagBeforeTake ==
    /\ runtime = "None" => sigint_shutdown
    /\ runtime_dropped > 0 => runtime = "None"

\* the runtime is out of its slot and not yet dropped, its task still being
\* polled, and the flag is up
C32_Witness ==
    /\ runtime = "None"
    /\ runtime_dropped = 0
    /\ sigint_shutdown
    /\ \E t \in Spawned : tp_tasks[t].state = "running"
    /\ \E s \in ShutdownThreads : sd_threads[s].pc = "idle"

(***************************************************************************)
(* C33: however many calls of perform_sigint_shutdown there are, one       *)
(* after the other or at once, exactly one of them takes the runtime and   *)
(* drops it, once; every other call finds the slot empty and returns       *)
(* with no further effect on the pool.                                     *)
(***************************************************************************)
Takers == { s \in ShutdownThreads : sd_threads[s].got = "Some" }

TakenOnce ==
    /\ Cardinality(Takers) <= 1
    /\ runtime_dropped = Cardinality({ s \in Takers : sd_threads[s].pc = "returned" })
    /\ \A s \in ShutdownThreads :
        sd_threads[s].pc \in { "took", "returned" } =>
            /\ runtime = "None"
            /\ Cardinality(Takers) = 1
            /\ s \notin Takers => sd_threads[s].got = "None"

LateCallChangesNothing ==
    \A s \in ShutdownThreads :
        (/\ sd_threads[s].pc = "took"
         /\ sd_threads[s].got = "None"
         /\ sd_threads'[s].pc = "returned") =>
            UNCHANGED << runtime, runtime_dropped, sigint_shutdown,
                         external_executor_count, tp_callers, tp_tasks >>

C33_RuntimeDroppedOnce == []TakenOnce /\ [][LateCallChangesNothing]_vars

\* every call has returned: one dropped the runtime and with it the task that
\* had yielded, the others found nothing to take
C33_Witness ==
    /\ \A s \in ShutdownThreads : sd_threads[s].pc = "returned"
    /\ Cardinality(Takers) = 1
    /\ runtime_dropped = 1
    /\ runtime = "None"
    /\ \E t \in Spawned : tp_tasks[t].state = "cancelled"

(***************************************************************************)
(* C34: when the future given to external_run_async_task panics, the       *)
(* panic stays in the task: the calling thread gets Err(TaskPanic) from    *)
(* its JoinHandle and returns it, and external_executor_count has been     *)
(* decremented for the call when it returns, before the shutdown and       *)
(* after it.                                                               *)
(***************************************************************************)
C34_PanicIsReturned ==
    \A c \in Callers :
        /\ tp_tasks[c].state = "panicked" =>
            /\ tp_callers[c].pc \in { "blocking", "joined", "returned" }
            /\ tp_callers[c].pc \in { "joined", "returned" } =>
                    tp_callers[c].ret = "TaskPanic"
            /\ tp_callers[c].pc = "returned" =>
                    external_executor_count =
                        Cardinality({ d \in Callers \ { c } : d \in CallsInProgress })
        /\ (tp_callers[c].pc \in { "joined", "returned" } /\ tp_callers[c].ret = "TaskPanic") =>
                tp_tasks[c].state = "panicked"

\* one call has returned TaskPanic while the other is still waiting for its
\* task: the count is 1
C34_Witness ==
    \E c, d \in Callers :
        /\ tp_callers[c].pc = "returned"
        /\ tp_callers[c].ret = "TaskPanic"
        /\ tp_tasks[c].state = "panicked"
        /\ tp_callers[d].pc = "blocking"
        /\ tp_tasks[d].state = "running"
        /\ external_executor_count = 1

(***************************************************************************)
(* C35: for every scheme, when decompress_from_reader succeeds the count   *)
(* it returns is the number of bytes it has written to the writer, and     *)
(* those bytes, appended to what the writer held, are the bytes            *)
(* decompress_from_slice returns for the same input.                       *)
(***************************************************************************)
C35_CountIsBytesWritten ==
    (c_pc = "copied" /\ c_copied.ok) =>
        /\ c_output.ok
        /\ c_writer.now = c_writer.before \o c_output.val
        /\ c_copied.val = Len(c_writer.now) - Len(c_writer.before)
        /\ c_copied.val = Len(c_output.val)

\* a four-plane payload of full length went into a writer that held a byte:
\* the count is the payload's length, not the writer's
C35_Witness ==
    /\ c_pc = "copied"
    /\ c_scheme = "ByteGrouping4LZ4"
    /\ Len(c_input) = MaxLen
    /\ c_writer.before = << 7 >>
    /\ c_writer.now = << 7 >> \o c_input
    /\ c_copied = Ok(MaxLen)
    /\ c_compressed.val # c_input

====
